---- MODULE Spec2Model ----
(***************************************************************************)
(* FloorTool: the room-placement engine of src/utils/GenerateLayout.ts.    *)
(*                                                                         *)
(* Numbers.  The engine computes in metres with floating point.  Here a    *)
(* length is an integer number of 5 cm units (1 m = 20), an area an        *)
(* integer number of 5 cm x 5 cm cells (1 m2 = 400), and a ratio a percent *)
(* or a pair num/den.  Centre coordinates (x, y, x1, ...) are kept in half *)
(* units (2.5 cm), so that "centre +- size / 2" is exact: a field x holds  *)
(* twice the centre in units.  Math.sqrt and the divisions of the sizing   *)
(* step round down to the unit.                                            *)
(***************************************************************************)
EXTENDS Integers, Sequences, FiniteSets, TLC

\* ---------------------------------------------------------------- values

\* null / undefined: every optional value is a record, so that it can be
\* compared with Null.
Null == [null |-> TRUE]

IsNull(v) == "null" \in DOMAIN v

\* a TypeError raised by reading a property of undefined
TypeError == [threw |-> "TypeError"]

Threw(v) == "threw" \in DOMAIN v

Max(a, b) == IF a >= b THEN a ELSE b

Min(a, b) == IF a <= b THEN a ELSE b

RECURSIVE Isqrt(_)
\* Math.sqrt, rounded down
Isqrt(n) ==
  IF n < 2 THEN n
  ELSE LET s == 2 * Isqrt(n \div 4)
       IN  IF (s + 1) * (s + 1) <= n THEN s + 1 ELSE s

RECURSIVE SumSeq(_)
SumSeq(s) == IF s = <<>> THEN 0 ELSE Head(s) + SumSeq(Tail(s))

\* ------------------------------------------------------------- constants

Edges == {"N", "E", "S", "W"}

RoomTypes == {"living", "kitchen", "bed", "wc"}

\* let VOID_RATIO = 0.15, in percent
VOID_RATIO_DEFAULT == 15

\* const DOOR_W_MIN = 0.6
DOOR_W_MIN == 12

\* const MIN_SIDE = 1
MIN_SIDE == 20

\* const SHRINK_STEP = 0.95, in percent
SHRINK_STEP == 95

\* tryPlaceOnGrid(room, step = 1.0)
GRID_STEP == 20

\* input.walls?.exteriorThickness ?? 0.2 (validator, generateLayout)
DefaultThickness == 4

\* input.walls?.exteriorThickness ?? 0.15 (tryFixedLayout)
DefaultThicknessFixed == 3

\* areas in cells (20, 14, 9 and 4 m2), colours without their leading '#'
ROOM_BASE ==
  [living  |-> [area |-> 8000, aspect |-> [num |-> 5, den |-> 4],
                color |-> "b3e5fc", label |-> "Phong khach"],
   bed     |-> [area |-> 5600, aspect |-> [num |-> 8, den |-> 7],
                color |-> "ffe082", label |-> "Phong ngu"],
   kitchen |-> [area |-> 3600, aspect |-> [num |-> 1, den |-> 1],
                color |-> "c8e6c9", label |-> "Bep"],
   wc      |-> [area |-> 1600, aspect |-> [num |-> 1, den |-> 1],
                color |-> "ffccbc", label |-> "WC"]]

\* ------------------------------------------------------------- catalogue

\* A colour string of the catalogue: whether it starts with '#', and the rest.
\* config.color.startsWith('#') ? config.color : `#${config.color}`
NormalizeColor(c) == IF c.hash THEN c ELSE [hash |-> TRUE, hex |-> c.hex]

\* a ROOM_BASE colour ("#" followed by s) in the same shape
BaseColor(s) == [hash |-> TRUE, hex |-> s]

RECURSIVE FindType(_, _)
\* presetsData.roomTypes.find(rt => rt.type === roomType): the first entry
FindType(roomTypes, roomType) ==
  IF roomTypes = <<>> THEN Null
  ELSE IF Head(roomTypes).type = roomType THEN Head(roomTypes)
  ELSE FindType(Tail(roomTypes), roomType)

\* variant: ROOM_BASE is not consulted, every type gets the generic default
BaseConfigGeneric(roomType) ==
  [area    |-> 4000,
   aspect  |-> [num |-> 6, den |-> 5],
   color   |-> BaseColor("f5f5f5"),
   label   |-> roomType,
   minArea |-> 4000,
   maxArea |-> 8000]

\* the fallback branch of getRoomConfig
BaseConfig(roomType) ==
  IF roomType \in DOMAIN ROOM_BASE
  THEN [area    |-> ROOM_BASE[roomType].area,
        aspect  |-> ROOM_BASE[roomType].aspect,
        color   |-> BaseColor(ROOM_BASE[roomType].color),
        label   |-> ROOM_BASE[roomType].label,
        minArea |-> ROOM_BASE[roomType].area,
        maxArea |-> ROOM_BASE[roomType].area * 2]
  ELSE \* || 10, || 1.2, || "#f5f5f5", || roomType, || 10, || 20
       [area    |-> 4000,
        aspect  |-> [num |-> 6, den |-> 5],
        color   |-> BaseColor("f5f5f5"),
        label   |-> roomType,
        minArea |-> 4000,
        maxArea |-> 8000]

\* getRoomConfig(roomType, presetsData): the configuration, or TypeError when
\* the catalogue lacks roomTypes, or the entry lacks area or color.
GetRoomConfig(roomType, presetsData) ==
  IF IsNull(presetsData) THEN BaseConfig(roomType)
  ELSE IF "roomTypes" \notin DOMAIN presetsData THEN TypeError
  ELSE LET config == FindType(presetsData.roomTypes, roomType)
       IN  IF IsNull(config) THEN BaseConfig(roomType)
           ELSE IF "area" \notin DOMAIN config \/ "color" \notin DOMAIN config
                THEN TypeError
           ELSE [area    |-> config.area.min,
                 aspect  |-> [num |-> 6, den |-> 5],
                 color   |-> NormalizeColor(config.color),
                 label   |-> config.label,
                 minArea |-> config.area.min,
                 maxArea |-> config.area.max]

\* ------------------------------------------------------------- validator

RECURSIVE CountTypes(_, _)
\* the reduce of countRoomsByType: the types in order of first occurrence,
\* each with its number of rooms (Object.entries keeps insertion order)
CountTypes(rooms, acc) ==
  IF rooms = <<>> THEN acc
  ELSE LET t == Head(rooms).type
           known == \E i \in 1..Len(acc) : acc[i].type = t
       IN  CountTypes(Tail(rooms),
             IF known
             THEN [i \in 1..Len(acc) |->
                     IF acc[i].type = t
                     THEN [type |-> t, count |-> acc[i].count + 1]
                     ELSE acc[i]]
             ELSE Append(acc, [type |-> t, count |-> 1]))

countRoomsByType(rooms) == CountTypes(rooms, <<>>)

\* innerArea: Math.max(0, innerWidth * innerHeight)
InnerArea(floorWidth, floorHeight, exteriorWallThickness) ==
  LET innerWidth == floorWidth - 2 * exteriorWallThickness
      innerHeight == floorHeight - 2 * exteriorWallThickness
  IN  Max(0, innerWidth * innerHeight)

\* usableArea = innerArea * (1 - voidRatio), voidRatio in percent
ValidatorUsableArea(floorWidth, floorHeight, voidRatio, exteriorWallThickness) ==
  (InnerArea(floorWidth, floorHeight, exteriorWallThickness) * (100 - voidRatio))
    \div 100

\* one entry of details; roomReq.count || 1
DetailOf(roomReq, presetsData) ==
  LET count == IF roomReq.count = 0 THEN 1 ELSE roomReq.count
      roomConfig == GetRoomConfig(roomReq.type, presetsData)
  IN  [type |-> roomReq.type, label |-> roomConfig.label, count |-> count,
       minAreaPerRoom |-> roomConfig.minArea,
       totalMinArea |-> roomConfig.minArea * count]

\* variant: the shortage is not floored at 0
ShortageSigned(totalRequiredArea, usableArea) == totalRequiredArea - usableArea

\* shortage = Math.max(0, totalRequiredArea - usableArea)
Shortage(totalRequiredArea, usableArea) == Max(0, totalRequiredArea - usableArea)

\* efficiency = usableArea > 0 ? (totalRequiredArea / usableArea) * 100 : 0,
\* kept as the fraction num / den (percent)
Efficiency(totalRequiredArea, usableArea) ==
  IF usableArea > 0
  THEN [num |-> totalRequiredArea * 100, den |-> usableArea]
  ELSE [num |-> 0, den |-> 1]

\* validateRoomAreaRequirements after its await of loadRoomPresets:
\* the verdict, or TypeError when getRoomConfig throws
validateRoomAreaRequirements(floorWidth, floorHeight, rooms, voidRatio, exteriorWallThickness, presetsData) ==
  IF \E i \in 1..Len(rooms) : Threw(GetRoomConfig(rooms[i].type, presetsData))
  THEN TypeError
  ELSE
    LET usableArea == ValidatorUsableArea(floorWidth, floorHeight, voidRatio,
                                          exteriorWallThickness)
        details == [i \in 1..Len(rooms) |-> DetailOf(rooms[i], presetsData)]
        totalRequiredArea ==
          SumSeq([i \in 1..Len(rooms) |-> details[i].totalMinArea])
        shortage == Shortage(totalRequiredArea, usableArea)
    IN  [isValid |-> shortage = 0,
         usableArea |-> usableArea,
         requiredMinArea |-> totalRequiredArea,
         shortage |-> shortage,
         efficiency |-> Efficiency(totalRequiredArea, usableArea),
         details |-> details]

\* input.walls?.exteriorThickness ?? dflt
ExteriorThickness(input, dflt) ==
  IF IsNull(input.walls) THEN dflt ELSE input.walls.exteriorThickness

\* -------------------------------------------------------------- geometry

\* variant: rectangles that touch count as overlapping
rectsOverlapClosed(a, b) ==
  ~ (\/ a.x + a.w < b.x - b.w
     \/ a.x - a.w > b.x + b.w
     \/ a.y + a.h < b.y - b.h
     \/ a.y - a.h > b.y + b.h)

\* rectsOverlap(a, b); x, y in half units, w, h in units
rectsOverlap(a, b) ==
  ~ (\/ a.x + a.w <= b.x - b.w
     \/ a.x - a.w >= b.x + b.w
     \/ a.y + a.h <= b.y - b.h
     \/ a.y - a.h >= b.y + b.h)

\* mainDoorToLine: the endpoints, in half units
mainDoorToLine(floorW, floorH, edge, offset, width) ==
  LET maxAlong == IF edge \in {"N", "S"} THEN floorW ELSE floorH
      clampedWidth == Max(DOOR_W_MIN, Min(width, maxAlong))
      clampedOffset == Max(0, Min(offset, maxAlong - clampedWidth))
      \* twice (-half + clampedOffset + clampedWidth / 2)
      x == - floorW + 2 * clampedOffset + clampedWidth
      y == - floorH + 2 * clampedOffset + clampedWidth
  IN  CASE edge = "S" ->
             [x1 |-> x - clampedWidth, y1 |-> - floorH,
              x2 |-> x + clampedWidth, y2 |-> - floorH]
        [] edge = "N" ->
             [x1 |-> x - clampedWidth, y1 |-> floorH,
              x2 |-> x + clampedWidth, y2 |-> floorH]
        [] edge = "E" ->
             [x1 |-> floorW, y1 |-> y - clampedWidth,
              x2 |-> floorW, y2 |-> y + clampedWidth]
        [] OTHER ->
             [x1 |-> - floorW, y1 |-> y - clampedWidth,
              x2 |-> - floorW, y2 |-> y + clampedWidth]

\* idealCornerCenterUsable, in half units
idealCornerCenterUsable(usableW, usableH, corner, w, h) ==
  CASE corner = "NW" -> [x |-> - usableW + w, y |-> usableH - h]
    [] corner = "NE" -> [x |-> usableW - w, y |-> usableH - h]
    [] corner = "SW" -> [x |-> - usableW + w, y |-> - usableH + h]
    [] OTHER -> [x |-> usableW - w, y |-> - usableH + h]

\* --------------------------------------------------------- door attachment

\* new Map(rooms.map(r => [r.id, r])).get(id): the last room with that id
ById(rooms, id) ==
  LET hits == {i \in 1..Len(rooms) : rooms[i].id = id}
  IN  IF hits = {} THEN Null
      ELSE rooms[CHOOSE i \in hits : \A j \in hits : j <= i]

\* variant: the width of a door is raised to DOOR_W_MIN
CopyDoorsClamped(doors) ==
  [i \in 1..Len(doors) |->
     [side |-> doors[i].side, width |-> Max(DOOR_W_MIN, doors[i].width),
      offsetRatio |-> doors[i].offsetRatio]]

\* src.doors.map(d => ({side, width, offsetRatio}))
CopyDoors(doors) ==
  [i \in 1..Len(doors) |->
     [side |-> doors[i].side, width |-> doors[i].width,
      offsetRatio |-> doors[i].offsetRatio]]

\* if (src?.doors?.length) p.rawDoors = ...; a room without doors has no
\* rawDoors field
AttachDoors(p, rooms) ==
  LET src == ById(rooms, p.id)
  IN  IF IsNull(src) \/ src.doors = <<>> THEN p
      ELSE p @@ [rawDoors |-> CopyDoors(src.doors)]

AttachAllDoors(placed, rooms) ==
  [i \in 1..Len(placed) |-> AttachDoors(placed[i], rooms)]

\* --------------------------------------------------------- fixed template

\* the rooms of one type, in request order
RoomsOfType(rooms, t) == SelectSeq(rooms, LAMBDA r : r.type = t)

\* variant: the floor height is not compared
FixedMatchesAnyHeight(input) ==
  /\ input.floor.width = 400
  /\ input.floor.mainDoor.edge = "W"
  /\ Len(RoomsOfType(input.rooms, "bed")) = 2
  /\ Len(RoomsOfType(input.rooms, "wc")) = 2
  /\ Len(RoomsOfType(input.rooms, "kitchen")) = 1
  /\ Len(RoomsOfType(input.rooms, "living")) = 1

\* if (floorW === 20 && floorH === 5 && mainDoor.edge === "W") and the four
\* counts
FixedMatches(input) ==
  /\ input.floor.width = 400
  /\ input.floor.height = 100
  /\ input.floor.mainDoor.edge = "W"
  /\ Len(RoomsOfType(input.rooms, "bed")) = 2
  /\ Len(RoomsOfType(input.rooms, "wc")) = 2
  /\ Len(RoomsOfType(input.rooms, "kitchen")) = 1
  /\ Len(RoomsOfType(input.rooms, "living")) = 1

\* the six rectangles of the template; offsetX = exteriorWallThickness
FixedRects(exteriorWallThickness) ==
  LET offsetX == 2 * exteriorWallThickness
  IN  << [type |-> "living", nth |-> 1, suffix |-> <<>>,
          x |-> -280 + offsetX, y |-> 0, w |-> 120,
          h |-> 100 - 2 * exteriorWallThickness],
         [type |-> "kitchen", nth |-> 1, suffix |-> <<>>,
          x |-> 330 + offsetX, y |-> 30, w |-> 70, h |-> 70],
         [type |-> "bed", nth |-> 1, suffix |-> <<" 1">>,
          x |-> -60 + offsetX, y |-> -30, w |-> 100, h |-> 70],
         [type |-> "bed", nth |-> 2, suffix |-> <<" 2">>,
          x |-> 200 + offsetX, y |-> -30, w |-> 60, h |-> 70],
         [type |-> "wc", nth |-> 1, suffix |-> <<" 1">>,
          x |-> 90 + offsetX, y |-> -30, w |-> 50, h |-> 70],
         [type |-> "wc", nth |-> 2, suffix |-> <<" 2">>,
          x |-> 330 + offsetX, y |-> -70, w |-> 70, h |-> 30] >>

\* tryFixedLayout after its await of loadRoomPresets: Null (no match), the
\* template layout, or TypeError when getRoomConfig throws.  A label is the
\* sequence of the strings it is concatenated from.
tryFixedLayout(input, presetsData) ==
  IF ~ FixedMatches(input) THEN Null
  ELSE IF \E t \in RoomTypes : Threw(GetRoomConfig(t, presetsData))
  THEN TypeError
  ELSE
    LET exteriorWallThickness == ExteriorThickness(input, DefaultThicknessFixed)
        rects == FixedRects(exteriorWallThickness)
        placed ==
          [i \in 1..Len(rects) |->
             LET r == rects[i]
                 cfg == GetRoomConfig(r.type, presetsData)
             IN  [id |-> RoomsOfType(input.rooms, r.type)[r.nth].id,
                  type |-> r.type, x |-> r.x, y |-> r.y, w |-> r.w, h |-> r.h,
                  color |-> cfg.color, label |-> <<cfg.label>> \o r.suffix]]
    IN  [floor |-> [width |-> input.floor.width,
                    height |-> input.floor.height,
                    mainDoor |-> mainDoorToLine(input.floor.width,
                                   input.floor.height,
                                   input.floor.mainDoor.edge,
                                   input.floor.mainDoor.offset,
                                   input.floor.mainDoor.width)],
         rooms |-> AttachAllDoors(placed, input.rooms),
         warnings |-> <<>>]

\* ------------------------------------------------------- heuristic: sizing

\* usableArea = usableW * usableH * (1 - VOID_RATIO)
UsableArea(usableW, usableH, voidRatio) ==
  (usableW * usableH * (100 - voidRatio)) \div 100

\* desiredSum: the sum of the preset areas, || 1 (one square metre)
DesiredSum(rooms, presetsData) ==
  LET s == SumSeq([i \in 1..Len(rooms) |->
                     GetRoomConfig(rooms[i].type, presetsData).area])
  IN  IF s = 0 THEN MIN_SIDE * MIN_SIDE ELSE s

\* variant: the factor is not capped at 1
ScaleUncapped(usableArea, desiredSum) ==
  [num |-> usableArea, den |-> desiredSum]

\* scale = Math.min(1, usableArea / desiredSum), as the fraction num / den
Scale(usableArea, desiredSum) ==
  IF usableArea >= desiredSum THEN [num |-> 1, den |-> 1]
  ELSE [num |-> usableArea, den |-> desiredSum]

\* area = Math.max(MIN_SIDE * MIN_SIDE, roomConfig.area * scale)
WorkingArea(presetArea, scale) ==
  Max(MIN_SIDE * MIN_SIDE, (presetArea * scale.num) \div scale.den)

\* one element of sized: w, h from the area and the aspect, clamped to the
\* usable rectangle and to MIN_SIDE
SizeRoom(r, roomConfig, scale, usableW, usableH) ==
  LET area == WorkingArea(roomConfig.area, scale)
      w0 == Isqrt((area * roomConfig.aspect.num) \div roomConfig.aspect.den)
      h0 == Max(MIN_SIDE, area \div w0)
      w1 == IF w0 > usableW THEN Max(MIN_SIDE, usableW) ELSE w0
      h1 == IF w0 > usableW THEN Max(MIN_SIDE, area \div w1) ELSE h0
      h2 == IF h1 > usableH THEN Max(MIN_SIDE, usableH) ELSE h1
      w2 == IF h1 > usableH THEN Max(MIN_SIDE, area \div h2) ELSE w1
  IN  [id |-> r.id, type |-> r.type, w |-> w2, h |-> h2, area |-> area,
       color |-> roomConfig.color, label |-> roomConfig.label]

\* sized: every requested room with its working size
Sized(rooms, presetsData, usableW, usableH, voidRatio) ==
  LET scale == Scale(UsableArea(usableW, usableH, voidRatio),
                     DesiredSum(rooms, presetsData))
  IN  [i \in 1..Len(rooms) |->
         SizeRoom(rooms[i], GetRoomConfig(rooms[i].type, presetsData), scale,
                  usableW, usableH)]

\* ------------------------------------------------------ heuristic: seeding

\* sized.find(r => r.type === "living")
LivingBase(sized) ==
  LET l == SelectSeq(sized, LAMBDA r : r.type = "living")
  IN  IF l = <<>> THEN Null ELSE Head(l)

\* variant: the centre follows the door without being clamped
Unclamped(usable, size, c) == c

\* Math.max(-half + size / 2, Math.min(half - size / 2, c)), in half units
ClampCentre(usable, size, c) == Max(- usable + size, Min(usable - size, c))

\* livingRect: the living room flush against the wall of the main door
LivingRect(livingBase, edge, mdLine, usableW, usableH) ==
  LET mdx == (mdLine.x1 + mdLine.x2) \div 2
      mdy == (mdLine.y1 + mdLine.y2) \div 2
      lx == CASE edge \in {"S", "N"} -> ClampCentre(usableW, livingBase.w, mdx)
              [] edge = "E" -> usableW - livingBase.w
              [] OTHER -> - usableW + livingBase.w
      ly == CASE edge = "S" -> - usableH + livingBase.h
              [] edge = "N" -> usableH - livingBase.h
              [] OTHER -> ClampCentre(usableH, livingBase.h, mdy)
  IN  [id |-> livingBase.id, type |-> "living", x |-> lx, y |-> ly,
       w |-> livingBase.w, h |-> livingBase.h,
       color |-> livingBase.color, label |-> <<livingBase.label>>]

\* ---------------------------------------------------- heuristic: placement

\* variant: the candidate is tested against the living room only
ClashLivingOnly(cand, placed, livingRect) ==
  ~ IsNull(livingRect) /\ rectsOverlap(cand, livingRect)

\* (livingRect && rectsOverlap(cand, livingRect)) || overlapsPlaced(cand)
Clash(cand, placed, livingRect) ==
  \/ ~ IsNull(livingRect) /\ rectsOverlap(cand, livingRect)
  \/ \E i \in 1..Len(placed) : rectsOverlap(cand, placed[i])

\* variant: every emitted room carries the identifier of the first request
EmitFirstId(room, cand, presetsData) ==
  LET roomConfig == GetRoomConfig(room.type, presetsData)
  IN  [id |-> 1, type |-> room.type, x |-> cand.x, y |-> cand.y,
       w |-> cand.w, h |-> cand.h,
       color |-> roomConfig.color, label |-> <<roomConfig.label>>]

\* the room emitted for a candidate
Emit(room, cand, presetsData) ==
  LET roomConfig == GetRoomConfig(room.type, presetsData)
  IN  [id |-> room.id, type |-> room.type, x |-> cand.x, y |-> cand.y,
       w |-> cand.w, h |-> cand.h,
       color |-> roomConfig.color, label |-> <<roomConfig.label>>]

RECURSIVE Shrink(_)
\* SHRINK_STEP^k in millionths: what k executions of w *= SHRINK_STEP
\* multiply a side by
Shrink(k) ==
  IF k = 0 THEN 1000000 ELSE (Shrink(k - 1) * SHRINK_STEP + 50) \div 100

ShrinkTable == [k \in 0..25 |-> Shrink(k)]

\* a side of w units after k shrink steps, rounded up to the unit: against
\* edges that lie on whole units the rounded side overlaps exactly when the
\* side itself does
Shrunk(w, k) == (w * ShrinkTable[k] + 999999) \div 1000000

\* w > MIN_SIDE for the side after k shrink steps, before any rounding
AboveMinSide(w, k) == w * ShrinkTable[k] > MIN_SIDE * 1000000

RECURSIVE CornerLoop(_, _, _, _, _, _, _, _)
\* the for loop of tryPlaceCorner from iteration k for a room of size w, h:
\* the candidate that is placed, or Null
CornerLoop(corner, w, h, k, placed, livingRect, usableW, usableH) ==
  IF k >= 25 THEN Null
  ELSE LET wk == Shrunk(w, k)
           hk == Shrunk(h, k)
           tgt == idealCornerCenterUsable(usableW, usableH, corner, wk, hk)
           cand == [x |-> tgt.x, y |-> tgt.y, w |-> wk, h |-> hk, k |-> k]
       IN  IF ~ Clash(cand, placed, livingRect) THEN cand
           ELSE IF AboveMinSide(w, k) /\ AboveMinSide(h, k)
                THEN CornerLoop(corner, w, h, k + 1, placed, livingRect,
                                usableW, usableH)
                ELSE Null

tryPlaceCorner(room, corner, placed, livingRect, usableW, usableH) ==
  CornerLoop(corner, room.w, room.h, 0, placed, livingRect, usableW, usableH)

cornerOrderByDoor ==
  [S |-> <<"NW", "NE", "SW", "SE">>,
   N |-> <<"SW", "SE", "NW", "NE">>,
   E |-> <<"NW", "SW", "NE", "SE">>,
   W |-> <<"NE", "SE", "NW", "SW">>]

\* for (const corner of cornerOrder) if (tryPlaceCorner(r, corner)) break
TryCorners(room, edge, placed, livingRect, usableW, usableH) ==
  LET Try(i) == tryPlaceCorner(room, cornerOrderByDoor[edge][i], placed,
                               livingRect, usableW, usableH)
      c1 == Try(1)
      c2 == IF IsNull(c1) THEN Try(2) ELSE c1
      c3 == IF IsNull(c2) THEN Try(3) ELSE c2
  IN  IF IsNull(c3) THEN Try(4) ELSE c3

\* variant: the last free wall midpoint is taken, not the first
tryPlaceAlongWallLast(room, placed, livingRect, usableW, usableH) ==
  LET cands == << [x |-> - usableW + room.w, y |-> 0],
                  [x |-> usableW - room.w, y |-> 0],
                  [x |-> 0, y |-> - usableH + room.h],
                  [x |-> 0, y |-> usableH - room.h] >>
      Cand(c) == [x |-> c.x, y |-> c.y, w |-> room.w, h |-> room.h]
      free == {i \in 1..4 : ~ Clash(Cand(cands[i]), placed, livingRect)}
  IN  IF free = {} THEN Null
      ELSE Cand(cands[CHOOSE i \in free : \A j \in free : i >= j])

\* tryPlaceAlongWall: the midpoints of the W, E, S, N walls
tryPlaceAlongWall(room, placed, livingRect, usableW, usableH) ==
  LET cands == << [x |-> - usableW + room.w, y |-> 0],
                  [x |-> usableW - room.w, y |-> 0],
                  [x |-> 0, y |-> - usableH + room.h],
                  [x |-> 0, y |-> usableH - room.h] >>
      Cand(c) == [x |-> c.x, y |-> c.y, w |-> room.w, h |-> room.h]
      free == {i \in 1..4 : ~ Clash(Cand(cands[i]), placed, livingRect)}
  IN  IF free = {} THEN Null
      ELSE Cand(cands[CHOOSE i \in free : \A j \in free : i <= j])

\* the values lo, lo + step, ... that are <= hi
GridLine(lo, hi, step) == {v \in lo..hi : (v - lo) % step = 0}

\* tryPlaceOnGrid(room, 1.0): y outer, x inner, the first free position
tryPlaceOnGrid(room, placed, livingRect, usableW, usableH) ==
  LET step == 2 * GRID_STEP
      Cand(x, y) == [x |-> x, y |-> y, w |-> room.w, h |-> room.h]
      xs == GridLine(- usableW + room.w, usableW - room.w, step)
      ys == GridLine(- usableH + room.h, usableH - room.h, step)
      free == {c \in ys \X xs : ~ Clash(Cand(c[2], c[1]), placed, livingRect)}
  IN  IF free = {} THEN Null
      ELSE LET y == CHOOSE v \in ys :
                      /\ \E c \in free : c[1] = v
                      /\ \A c \in free : v <= c[1]
               x == CHOOSE v \in xs :
                      /\ <<y, v>> \in free
                      /\ \A c \in free : c[1] = y => v <= c[2]
           IN  Cand(x, y)

\* prio: bed 0, kitchen 1, wc 2, anything else 3
prio(t) == CASE t = "bed" -> 0 [] t = "kitchen" -> 1 [] t = "wc" -> 2
             [] OTHER -> 3

\* variant: the sort takes the kitchen before the bedrooms
SortKitchenFirst(others) ==
  SelectSeq(others, LAMBDA r : prio(r.type) = 1)
    \o SelectSeq(others, LAMBDA r : prio(r.type) = 0)
    \o SelectSeq(others, LAMBDA r : prio(r.type) = 2)
    \o SelectSeq(others, LAMBDA r : prio(r.type) = 3)

\* [...others].sort((a, b) => prio(a.type) - prio(b.type)), a stable sort
SortByPrio(others) ==
  SelectSeq(others, LAMBDA r : prio(r.type) = 0)
    \o SelectSeq(others, LAMBDA r : prio(r.type) = 1)
    \o SelectSeq(others, LAMBDA r : prio(r.type) = 2)
    \o SelectSeq(others, LAMBDA r : prio(r.type) = 3)

\* variant: every living room is left out, not only the seeded one
OthersSortedNoLiving(sized) ==
  SortByPrio(SelectSeq(sized, LAMBDA r : r.type # "living"))

\* othersSorted: the sized rooms but the seeded living room, by priority
OthersSorted(sized) ==
  LET livingBase == LivingBase(sized)
  IN  SortByPrio(IF IsNull(livingBase) THEN sized
                 ELSE SelectSeq(sized, LAMBDA r : r.id # livingBase.id))

\* the warning of a room that is dropped
CannotPlace(label) == [kind |-> "cannotPlace", label |-> label]

\* the body of the placement loop for room r: corners, then walls, then the
\* grid, then the warning.  st holds placed and warnings.
PlaceRoom(r, st, edge, livingRect, usableW, usableH, presetsData) ==
  LET c1 == TryCorners(r, edge, st.placed, livingRect, usableW, usableH)
      c2 == IF ~ IsNull(c1) THEN c1
            ELSE tryPlaceAlongWall(r, st.placed, livingRect, usableW, usableH)
      c3 == IF ~ IsNull(c2) THEN c2
            ELSE tryPlaceOnGrid(r, st.placed, livingRect, usableW, usableH)
  IN  IF ~ IsNull(c3)
      THEN [st EXCEPT !.placed = Append(@, Emit(r, c3, presetsData))]
      ELSE [st EXCEPT !.warnings =
              Append(@, CannotPlace(GetRoomConfig(r.type, presetsData).label))]

\* the warnings pushed before placement, from the verdict
EfficiencyWarnings(validation) ==
  IF IsNull(validation) THEN <<>>
  ELSE LET e == validation.efficiency
       IN  (IF e.num < 60 * e.den
            THEN <<[kind |-> "lowEfficiency", efficiency |-> e]>> ELSE <<>>)
           \o (IF e.num > 90 * e.den
               THEN <<[kind |-> "highEfficiency", efficiency |-> e]>>
               ELSE <<>>)

\* the warnings pushed after placement: exteriorWallThickness > 0.3 (6
\* units) and usableArea < desiredSum * 0.7
FinalWarnings(exteriorWallThickness, usableArea, desiredSum) ==
  (IF exteriorWallThickness > 6
   THEN <<[kind |-> "thickWall", thickness |-> exteriorWallThickness]>>
   ELSE <<>>)
  \o (IF 10 * usableArea < 7 * desiredSum
      THEN <<[kind |-> "areaShort"]>> ELSE <<>>)

\* the state of the heuristic engine before the placement loop (lines
\* 455-596): the sized rooms, the seeded living room and the first warnings;
\* TypeError when getRoomConfig throws
HeuristicStart(input, presetsData, voidRatio, validation) ==
  IF \E i \in 1..Len(input.rooms) :
       Threw(GetRoomConfig(input.rooms[i].type, presetsData))
  THEN TypeError
  ELSE
    LET floorW == input.floor.width
        floorH == input.floor.height
        mainDoor == input.floor.mainDoor
        exteriorWallThickness == ExteriorThickness(input, DefaultThickness)
        usableW == floorW - 2 * exteriorWallThickness
        usableH == floorH - 2 * exteriorWallThickness
        sized == Sized(input.rooms, presetsData, usableW, usableH, voidRatio)
        mdLine == mainDoorToLine(floorW, floorH, mainDoor.edge,
                                 mainDoor.offset, mainDoor.width)
        livingBase == LivingBase(sized)
        livingRect == IF IsNull(livingBase) THEN Null
                      ELSE LivingRect(livingBase, mainDoor.edge, mdLine,
                                      usableW, usableH)
    IN  [usableW |-> usableW, usableH |-> usableH,
         usableArea |-> UsableArea(usableW, usableH, voidRatio),
         desiredSum |-> DesiredSum(input.rooms, presetsData),
         sized |-> sized, mdLine |-> mdLine, livingRect |-> livingRect,
         todo |-> OthersSorted(sized),
         placed |-> IF IsNull(livingRect) THEN <<>> ELSE <<livingRect>>,
         warnings |-> EfficiencyWarnings(validation)]

\* variant: an invalid verdict returns early, with no room
HeuristicFinishBlocking(input, h, validation) ==
  [floor |-> [width |-> input.floor.width, height |-> input.floor.height,
              mainDoor |-> h.mdLine],
   rooms |-> IF ~ IsNull(validation) /\ ~ validation.isValid THEN <<>>
             ELSE AttachAllDoors(h.placed, input.rooms),
   warnings |-> h.warnings
     \o FinalWarnings(ExteriorThickness(input, DefaultThickness),
                      h.usableArea, h.desiredSum),
   validation |-> validation]

\* the result returned after the placement loop (lines 735-758)
HeuristicFinish(input, h, validation) ==
  [floor |-> [width |-> input.floor.width, height |-> input.floor.height,
              mainDoor |-> h.mdLine],
   rooms |-> AttachAllDoors(h.placed, input.rooms),
   warnings |-> h.warnings
     \o FinalWarnings(ExteriorThickness(input, DefaultThickness),
                      h.usableArea, h.desiredSum),
   validation |-> validation]

\* one turn of the placement loop on the engine state h
HeuristicStep(input, h, presetsData) ==
  LET st == PlaceRoom(Head(h.todo), [placed |-> h.placed,
                                     warnings |-> h.warnings],
                      input.floor.mainDoor.edge, h.livingRect,
                      h.usableW, h.usableH, presetsData)
  IN  [h EXCEPT !.todo = Tail(@), !.placed = st.placed,
                !.warnings = st.warnings]

RECURSIVE HeuristicRun(_, _, _)
\* lines 719-733: the placement loop run from the engine state h to its end
HeuristicRun(input, h, presetsData) ==
  IF h.todo = <<>> THEN h
  ELSE HeuristicRun(input, HeuristicStep(input, h, presetsData), presetsData)

\* ------------------------------------------------------------------ state

VARIABLES
  cachedPresetsData,  \* let cachedPresetsData: the memo of loadRoomPresets
  VOID_RATIO,         \* let VOID_RATIO, in percent
  catalogue,          \* the body /room_preset.json is served with
  requests,           \* the number of axios.get requests issued so far
  writes,             \* the number of assignments to cachedPresetsData so far
  layout,             \* the page's state: const [layout, setLayout]
  isGenerating,       \* the page's state: const [isGenerating, ...]
  call,               \* the generateLayout / validateBeforeGenerate calls
  pc,                 \* where the procedure under study stands
  input,              \* its argument
  skipValidation,     \* generateLayout's second argument
  presetsData,        \* generateLayout's const presetsData
  validation,         \* generateLayout's let validation
  engine,             \* the locals of the heuristic engine
  result              \* what the procedure returned

vars == <<cachedPresetsData, VOID_RATIO, catalogue, requests, writes, layout,
          isGenerating, call, pc, input, skipValidation, presetsData,
          validation, engine,
          result>>

\* the state outside the procedure under study
moduleVars == <<cachedPresetsData, VOID_RATIO, catalogue, requests, writes,
                layout, isGenerating, call>>

\* ----------------------------------------------------------------- inputs

\* the longest room list that is enumerated in full
MaxRooms == 2

\* a request: room i has id i and no doors
Request(types) ==
  [i \in 1..Len(types) |-> [id |-> i, type |-> types[i], doors |-> <<>>]]

TypeLists(n) == UNION {[1..k -> RoomTypes] : k \in 0..n}

\* every ordering of 2 bed, 2 wc, 1 kitchen, 1 living
TemplateLists ==
  {s \in [1..6 -> RoomTypes] :
     /\ Cardinality({i \in 1..6 : s[i] = "bed"}) = 2
     /\ Cardinality({i \in 1..6 : s[i] = "wc"}) = 2
     /\ Cardinality({i \in 1..6 : s[i] = "kitchen"}) = 1}

FloorInput(w, h, e, o, dw, walls, types) ==
  [floor |-> [width |-> w, height |-> h,
              mainDoor |-> [edge |-> e, offset |-> o, width |-> dw]],
   rooms |-> Request(types), walls |-> walls]

\* main doors <<offset, width>>: 0.4 m wide in the corner, 1 m wide at 2 m
MainDoors == {<<0, 8>>, <<40, 20>>}

\* floors from 0.3 m to 20 m wide and 1.5 m or 5 m high, walls of the default
\* thickness or 0.4 m thick, with every short room list
SmallInputs ==
  {FloorInput(w, h, e, d[1], d[2], walls, types) :
     w \in {6, 30, 60, 400}, h \in {30, 100}, e \in Edges, d \in MainDoors,
     walls \in {Null, [exteriorThickness |-> 8]},
     types \in TypeLists(MaxRooms)}

\* the key of the template (20 m x 5 m, door on W), walls of the default
\* thickness or none, with every ordering of the template's rooms
TemplateInputs ==
  {FloorInput(400, 100, "W", d[1], d[2], walls, types) :
     d \in MainDoors, walls \in {Null, [exteriorThickness |-> 0]},
     types \in TemplateLists}

\* floors and doors at and next to the key of the template, with the
\* orderings of the template's rooms that start living, kitchen
NearInputs ==
  {FloorInput(w, h, e, d[1], d[2], walls, types) :
     w \in {400, 100}, h \in {100, 80}, e \in {"W", "S"}, d \in MainDoors,
     walls \in {Null, [exteriorThickness |-> 0]},
     types \in {s \in TemplateLists : s[1] = "living" /\ s[2] = "kitchen"}}

\* a door of a request; offsetRatio in percent
Door(side, width, offsetRatio) ==
  [id |-> <<side, width>>, side |-> side, width |-> width,
   offsetRatio |-> offsetRatio]

\* the input with the doors of its i-th room replaced
WithDoors(in, i, doors) == [in EXCEPT !.rooms[i].doors = doors]

\* door lists: none, one door, and two doors of which one is wider than any
\* wall and lies beyond it and one has no width
DoorLists ==
  {<<>>, <<Door("N", 16, 50)>>, <<Door("E", 600, 150), Door("S", 0, 0)>>}

\* the template's floor, two floors for the heuristic engine and a floor too
\* small for its second room, with doors on the first two rooms
DoorInputs ==
  {WithDoors(WithDoors(in, 1, d1), 2, d2) :
     in \in {FloorInput(400, 100, "W", 40, 20, Null,
                        <<"living", "kitchen", "bed", "bed", "wc", "wc">>),
             FloorInput(100, 80, "S", 40, 20, Null, <<"living", "bed">>),
             FloorInput(200, 100, "E", 0, 8, Null, <<"bed", "kitchen", "wc">>),
             FloorInput(30, 30, "N", 0, 8, [exteriorThickness |-> 8],
                        <<"bed", "wc">>)},
     d1 \in DoorLists, d2 \in DoorLists}

LayoutInputs == SmallInputs \cup TemplateInputs \cup NearInputs \cup DoorInputs

\* catalogues: complete, with one type only and no void ratio, without
\* roomTypes, with an entry without color, and the JSON value null
Entry(t, l, min, max, c) ==
  [type |-> t, label |-> l, area |-> [min |-> min, max |-> max], color |-> c]

CatFull ==
  [defaults |-> [voidRatio |-> 10],
   roomTypes |->
     << Entry("living", "Living", 6400, 12000, [hash |-> TRUE, hex |-> "aaa"]),
        Entry("bed", "Bed", 3600, 8000, [hash |-> FALSE, hex |-> "bbb"]),
        Entry("kitchen", "Kitchen", 2400, 6000, [hash |-> TRUE, hex |-> "ccc"]),
        Entry("wc", "Bath", 1200, 2400, [hash |-> FALSE, hex |-> "ddd"]) >>]

CatBedOnly ==
  [defaults |-> [voidRatio |-> 0],
   roomTypes |->
     << Entry("bed", "Bed", 300, 8000, [hash |-> FALSE, hex |-> "bbb"]) >>]

CatNoRoomTypes == [defaults |-> [voidRatio |-> 10]]

CatNoColor ==
  [roomTypes |->
     << [type |-> "bed", label |-> "Bed",
         area |-> [min |-> 3600, max |-> 8000]] >>]

WellFormed == {CatFull, CatBedOnly}

Malformed == {CatNoRoomTypes, CatNoColor}

\* if (cachedPresetsData.defaults?.voidRatio) VOID_RATIO = ...: the void
\* ratio after a load of data
UpdatedVoidRatio(data, old) ==
  IF /\ "defaults" \in DOMAIN data
     /\ "voidRatio" \in DOMAIN data.defaults
     /\ data.defaults.voidRatio # 0
  THEN data.defaults.voidRatio
  ELSE old

\* --------------------------------------------- generateLayout, step by step

\* generateLayout with the catalogue snapshot presetsData already loaded
InitLayout ==
  /\ cachedPresetsData = Null
  /\ catalogue = Null
  /\ requests = 0
  /\ writes = 0
  /\ layout = Null
  /\ isGenerating = FALSE
  /\ call = Null
  /\ pc = "validate"
  /\ input \in LayoutInputs
  /\ skipValidation \in BOOLEAN
  /\ presetsData \in {Null, CatFull, CatBedOnly, CatNoRoomTypes}
  /\ VOID_RATIO = UpdatedVoidRatio(presetsData, VOID_RATIO_DEFAULT)
  /\ validation = Null
  /\ engine = Null
  /\ result = Null

\* lines 422-444: the verdict, undefined when skipped or when it threw
ValidationStep ==
  /\ pc = "validate"
  /\ validation' =
       IF skipValidation THEN Null
       ELSE LET v == validateRoomAreaRequirements(
                       input.floor.width, input.floor.height,
                       countRoomsByType(input.rooms), VOID_RATIO,
                       ExteriorThickness(input, DefaultThickness), presetsData)
            IN  IF Threw(v) THEN Null ELSE v
  /\ pc' = "fixed"
  /\ UNCHANGED <<moduleVars, input, skipValidation, presetsData, engine,
                 result>>

\* lines 446-453: the template, when it matches
FixedStep ==
  /\ pc = "fixed"
  /\ LET fixed == tryFixedLayout(input, presetsData)
     IN  /\ pc' = IF Threw(fixed) THEN "rejected"
                  ELSE IF IsNull(fixed) THEN "size" ELSE "done"
         /\ result' = IF Threw(fixed) \/ IsNull(fixed) THEN result
                      ELSE fixed @@ [validation |-> validation]
  /\ UNCHANGED <<moduleVars, input, skipValidation, presetsData, validation,
                 engine>>

\* lines 455-596: sizing and the seeding of the living room
SizeStep ==
  /\ pc = "size"
  /\ LET h == HeuristicStart(input, presetsData, VOID_RATIO, validation)
     IN  /\ pc' = IF Threw(h) THEN "rejected" ELSE "place"
         /\ engine' = IF Threw(h) THEN engine ELSE h
  /\ UNCHANGED <<moduleVars, input, skipValidation, presetsData, validation,
                 result>>

\* lines 719-733: one turn of the placement loop
PlaceStep ==
  /\ pc = "place"
  /\ engine.todo # <<>>
  /\ engine' = HeuristicStep(input, engine, presetsData)
  /\ UNCHANGED <<moduleVars, pc, input, skipValidation, presetsData,
                 validation, result>>

\* lines 735-758: doors, the last warnings, the result
FinishStep ==
  /\ pc = "place"
  /\ engine.todo = <<>>
  /\ result' = HeuristicFinish(input, engine, validation)
  /\ pc' = "done"
  /\ UNCHANGED <<moduleVars, input, skipValidation, presetsData, validation,
                 engine>>

NextLayout ==
  \/ ValidationStep
  \/ FixedStep
  \/ SizeStep
  \/ PlaceStep
  \/ FinishStep

SpecLayout == InitLayout /\ [][NextLayout]_vars

\* ----------------------------------------------- properties of the layout

\* the usable interior generateLayout computes, in units
UsableW(in) == in.floor.width - 2 * ExteriorThickness(in, DefaultThickness)

UsableH(in) == in.floor.height - 2 * ExteriorThickness(in, DefaultThickness)

\* the key of the template as the specification states it
IsTemplateKey(in) ==
  /\ in.floor.width = 400 /\ in.floor.height = 100
  /\ in.floor.mainDoor.edge = "W"
  /\ \A t \in RoomTypes :
       Cardinality({i \in 1..Len(in.rooms) : in.rooms[i].type = t})
         = (IF t \in {"bed", "wc"} THEN 2 ELSE 1)

\* the rectangle of a placed room
RectOf(p) == [x |-> p.x, y |-> p.y, w |-> p.w, h |-> p.h]

Returned == pc = "done"

HeuristicRan == engine # Null

NoOverlapIn(rooms) ==
  \A i, j \in 1..Len(rooms) : i < j => ~ rectsOverlap(rooms[i], rooms[j])

\* C1: in every layout generateLayout returns, by the template or by the
\* heuristic engine, no two distinct placed rooms overlap (rooms that touch
\* at an edge are allowed).
C1_NoOverlap == Returned => NoOverlapIn(result.rooms)

\* C1 witness: a crowded heuristic layout: three rooms placed, one dropped
C1_Witness ==
  /\ Returned /\ HeuristicRan
  /\ Len(result.rooms) >= 3
  /\ \E i \in 1..Len(result.warnings) : result.warnings[i].kind = "cannotPlace"

Inside(p, usableW, usableH) ==
  /\ - usableW <= p.x - p.w /\ p.x + p.w <= usableW
  /\ - usableH <= p.y - p.h /\ p.y + p.h <= usableH

\* C2: every placed room of every returned layout (template results and
\* floors below the 1 m minimum side included) lies inside the usable
\* interior [-usableW/2, usableW/2] x [-usableH/2, usableH/2].
C2_Containment ==
  Returned =>
    \A i \in 1..Len(result.rooms) :
      Inside(result.rooms[i], UsableW(input), UsableH(input))

\* the nth room of type t in request order
NthOfType(in, t, n) ==
  LET idx == {i \in 1..Len(in.rooms) : in.rooms[i].type = t}
  IN  in.rooms[CHOOSE i \in idx :
                 Cardinality({j \in idx : j <= i}) = n]

\* the template's pre-authored rooms for a request: id, type, centre in half
\* units, size in units; t is the exterior wall thickness
TemplateRooms(in, t) ==
  << [id |-> NthOfType(in, "living", 1).id, type |-> "living",
      x |-> -280 + 2 * t, y |-> 0, w |-> 120, h |-> 100 - 2 * t],
     [id |-> NthOfType(in, "kitchen", 1).id, type |-> "kitchen",
      x |-> 330 + 2 * t, y |-> 30, w |-> 70, h |-> 70],
     [id |-> NthOfType(in, "bed", 1).id, type |-> "bed",
      x |-> -60 + 2 * t, y |-> -30, w |-> 100, h |-> 70],
     [id |-> NthOfType(in, "bed", 2).id, type |-> "bed",
      x |-> 200 + 2 * t, y |-> -30, w |-> 60, h |-> 70],
     [id |-> NthOfType(in, "wc", 1).id, type |-> "wc",
      x |-> 90 + 2 * t, y |-> -30, w |-> 50, h |-> 70],
     [id |-> NthOfType(in, "wc", 2).id, type |-> "wc",
      x |-> 330 + 2 * t, y |-> -70, w |-> 70, h |-> 30] >>

Geometry(rooms) ==
  [i \in 1..Len(rooms) |->
     [id |-> rooms[i].id, type |-> rooms[i].type, x |-> rooms[i].x,
      y |-> rooms[i].y, w |-> rooms[i].w, h |-> rooms[i].h]]

\* generateLayout has settled: it returned or it rejected
Settled == pc \in {"done", "rejected"}

\* C3: for the 20 x 5 floor with the door on W and exactly 2 bed, 2 wc,
\* 1 kitchen, 1 living, generateLayout returns the six template rooms
\* (first bed / wc of the request first), for every door offset and width,
\* every ordering and every catalogue state, and never runs the heuristic
\* search.
C3_TemplatePrecedence ==
  (IsTemplateKey(input) /\ pc \notin {"validate", "fixed"}) =>
    /\ Returned
    /\ ~ HeuristicRan
    /\ Geometry(result.rooms)
         = TemplateRooms(input, ExteriorThickness(input, DefaultThicknessFixed))

\* C4: when the floor width, the floor height, the door edge or the counts
\* differ from the template's key, what generateLayout returns is the
\* heuristic engine's result, never the template's rooms.
C4_FallbackOnMismatch ==
  (~ IsTemplateKey(input) /\ Returned) =>
    /\ HeuristicRan
    /\ result.rooms = AttachAllDoors(engine.placed, input.rooms)
    /\ \A t \in {0, DefaultThickness, DefaultThicknessFixed} :
         [i \in 1..Len(result.rooms) |-> RectOf(result.rooms[i])]
           # [i \in 1..6 |-> RectOf(FixedRects(t)[i])]

\* C4 witness: the floor and the door of the key with other room counts
C4_Witness ==
  /\ Returned /\ HeuristicRan
  /\ input.floor.width = 400 /\ input.floor.height = 100
  /\ input.floor.mainDoor.edge = "W"
  /\ Len(input.rooms) = 2

CannotPlaceLabels(warnings) ==
  SelectSeq(warnings, LAMBDA w : w.kind = "cannotPlace")

\* C5: in every result each requested room is either placed once or dropped
\* with one "cannot place" warning naming its label, never both or neither:
\* placed rooms + "cannot place" warnings = requested rooms.
C5_RoomAccounting ==
  Returned =>
    LET placedIds == {result.rooms[i].id : i \in 1..Len(result.rooms)}
        dropped == {i \in 1..Len(input.rooms) :
                      input.rooms[i].id \notin placedIds}
        labels == {GetRoomConfig(input.rooms[i].type, presetsData).label :
                     i \in 1..Len(input.rooms)}
        warned == CannotPlaceLabels(result.warnings)
    IN  /\ \A i, j \in 1..Len(result.rooms) :
             result.rooms[i].id = result.rooms[j].id => i = j
        /\ placedIds \subseteq {input.rooms[i].id : i \in 1..Len(input.rooms)}
        /\ \A l \in labels :
             Cardinality({i \in 1..Len(warned) : warned[i].label = l})
               = Cardinality({i \in dropped :
                    GetRoomConfig(input.rooms[i].type, presetsData).label = l})
        /\ Len(result.rooms) + Len(warned) = Len(input.rooms)

\* C5 witness: a result with a placed room and two dropped rooms
C5_Witness ==
  /\ Returned
  /\ Len(result.rooms) >= 1
  /\ Len(CannotPlaceLabels(result.warnings)) >= 2

\* the sum of the preset target areas of the request, and the usable area
PresetSum(in, p) ==
  SumSeq([i \in 1..Len(in.rooms) |-> GetRoomConfig(in.rooms[i].type, p).area])

UsableAreaOf(in, voidRatio) ==
  (UsableW(in) * UsableH(in) * (100 - voidRatio)) \div 100

\* C9 as stated: when the preset sum exceeds the usable area every working
\* area is its preset area times the one factor usableArea / sum < 1, however
\* small; otherwise every working area is its preset area.
C9_ScaleAsStated ==
  HeuristicRan =>
    LET sum == PresetSum(input, presetsData)
        ua == UsableAreaOf(input, VOID_RATIO)
    IN  \A i \in 1..Len(engine.sized) :
          LET preset == GetRoomConfig(engine.sized[i].type, presetsData).area
          IN  engine.sized[i].area
                = (IF sum > ua THEN (preset * ua) \div sum ELSE preset)

\* C9 amended: the working area is the scaled preset area, but never below
\* MIN_SIDE * MIN_SIDE: max(1 m2, preset * usableArea / sum) when the sum
\* exceeds the usable area, max(1 m2, preset) otherwise.
C9_ScaleWithFloor ==
  HeuristicRan =>
    LET sum == PresetSum(input, presetsData)
        ua == UsableAreaOf(input, VOID_RATIO)
    IN  \A i \in 1..Len(engine.sized) :
          LET preset == GetRoomConfig(engine.sized[i].type, presetsData).area
          IN  engine.sized[i].area
                = Max(MIN_SIDE * MIN_SIDE,
                      IF sum > ua THEN (preset * ua) \div sum ELSE preset)

\* C9 witness: the sum exceeds the usable area; one room keeps its scaled
\* area and another is raised to 1 m2
C9_Witness ==
  /\ HeuristicRan
  /\ PresetSum(input, presetsData) > UsableAreaOf(input, VOID_RATIO)
  /\ \E i, j \in 1..Len(engine.sized) :
       /\ engine.sized[i].area > MIN_SIDE * MIN_SIDE
       /\ engine.sized[j].area = MIN_SIDE * MIN_SIDE
       /\ GetRoomConfig(engine.sized[j].type, presetsData).area
            * UsableAreaOf(input, VOID_RATIO)
          < MIN_SIDE * MIN_SIDE * PresetSum(input, presetsData)

\* ------------------------------------------------- mainDoorToLine, alone

\* floors from 0.3 m to 20 m, offsets and widths from 0 to beyond the edge
DoorArgs ==
  [floorW : {6, 10, 30, 400}, floorH : {8, 30, 100}, edge : Edges,
   offset : {0, 5, 40, 500}, width : {0, 8, 12, 20, 600}]

InitDoor ==
  /\ cachedPresetsData = Null
  /\ VOID_RATIO = VOID_RATIO_DEFAULT
  /\ catalogue = Null
  /\ requests = 0
  /\ writes = 0
  /\ layout = Null
  /\ isGenerating = FALSE
  /\ call = Null
  /\ pc = "door"
  /\ input \in DoorArgs
  /\ skipValidation = FALSE
  /\ presetsData = Null
  /\ validation = Null
  /\ engine = Null
  /\ result = Null

DoorStep ==
  /\ pc = "door"
  /\ result' = mainDoorToLine(input.floorW, input.floorH, input.edge,
                              input.offset, input.width)
  /\ pc' = "done"
  /\ UNCHANGED <<moduleVars, input, skipValidation, presetsData, validation,
                 engine>>

NextDoor == DoorStep

SpecDoor == InitDoor /\ [][NextDoor]_vars

\* C6: mainDoorToLine returns a segment on the chosen boundary, contained in
\* [-halfW, halfW] (N/S) or [-halfH, halfH] (E/W), at least 0.6 m long, or
\* as long as the edge when the edge is shorter than 0.6 m.
C6_DoorClamped ==
  pc = "done" =>
    LET along == IF input.edge \in {"N", "S"} THEN input.floorW
                 ELSE input.floorH
        \* the coordinates along the edge and across it, in half units
        a1 == IF input.edge \in {"N", "S"} THEN result.x1 ELSE result.y1
        a2 == IF input.edge \in {"N", "S"} THEN result.x2 ELSE result.y2
        c1 == IF input.edge \in {"N", "S"} THEN result.y1 ELSE result.x1
        c2 == IF input.edge \in {"N", "S"} THEN result.y2 ELSE result.x2
        boundary == CASE input.edge = "S" -> - input.floorH
                      [] input.edge = "N" -> input.floorH
                      [] input.edge = "E" -> input.floorW
                      [] OTHER -> - input.floorW
    IN  /\ c1 = boundary /\ c2 = boundary
        /\ - along <= a1 /\ a1 <= a2 /\ a2 <= along
        /\ IF along < DOOR_W_MIN THEN a2 - a1 = 2 * along
           ELSE a2 - a1 >= 2 * DOOR_W_MIN

\* ------------------------------------- validateRoomAreaRequirements, alone

\* floors from 0.3 m to 10 m, walls up to 0.4 m, void ratios up to 15 %
ValidateArgs ==
  [floorWidth : {6, 30, 200}, floorHeight : {6, 100},
   rooms : {countRoomsByType(Request(types)) : types \in TypeLists(MaxRooms)},
   voidRatio : {0, 10, VOID_RATIO_DEFAULT},
   exteriorWallThickness : {0, DefaultThickness, 8}]

InitValidate ==
  /\ cachedPresetsData = Null
  /\ VOID_RATIO = VOID_RATIO_DEFAULT
  /\ catalogue = Null
  /\ requests = 0
  /\ writes = 0
  /\ layout = Null
  /\ isGenerating = FALSE
  /\ call = Null
  /\ pc = "verdict"
  /\ input \in ValidateArgs
  /\ skipValidation = FALSE
  /\ presetsData \in {Null, CatFull, CatBedOnly, CatNoColor}
  /\ validation = Null
  /\ engine = Null
  /\ result = Null

\* validateRoomAreaRequirements once loadRoomPresets has returned presetsData
VerdictStep ==
  /\ pc = "verdict"
  /\ LET v == validateRoomAreaRequirements(input.floorWidth,
                input.floorHeight, input.rooms, input.voidRatio,
                input.exteriorWallThickness, presetsData)
     IN  /\ pc' = IF Threw(v) THEN "rejected" ELSE "done"
         /\ result' = IF Threw(v) THEN result ELSE v
  /\ UNCHANGED <<moduleVars, input, skipValidation, presetsData, validation,
                 engine>>

NextValidate == VerdictStep

SpecValidate == InitValidate /\ [][NextValidate]_vars

\* C7: usableArea = (floorW - 2t) * (floorH - 2t) * (1 - voidRatio) when both
\* interior dimensions are non-negative, and 0 whenever one is negative, also
\* when both are.
C7_UsableArea ==
  pc = "done" =>
    LET iw == input.floorWidth - 2 * input.exteriorWallThickness
        ih == input.floorHeight - 2 * input.exteriorWallThickness
    IN  result.usableArea
          = (IF iw >= 0 /\ ih >= 0
             THEN (iw * ih * (100 - input.voidRatio)) \div 100
             ELSE 0)

\* C8: in every verdict requiredMinArea is the sum over the requested types of
\* count * minAreaForType and the sum of details[].totalMinArea, shortage is
\* max(0, required - usable), isValid holds iff required <= usable, and
\* efficiency is required / usable * 100 when usable > 0 and 0 otherwise.
C8_VerdictConsistency ==
  pc = "done" =>
    LET required ==
          SumSeq([i \in 1..Len(input.rooms) |->
                    input.rooms[i].count
                      * GetRoomConfig(input.rooms[i].type, presetsData).minArea])
        usable == result.usableArea
    IN  /\ result.requiredMinArea = required
        /\ required = SumSeq([i \in 1..Len(result.details) |->
                                result.details[i].totalMinArea])
        /\ result.shortage = (IF required > usable THEN required - usable
                              ELSE 0)
        /\ result.isValid <=> (required <= usable)
        /\ IF usable > 0
           THEN /\ result.efficiency.num = required * 100
                /\ result.efficiency.den = usable
           ELSE result.efficiency.num = 0

\* C8 witness: a verdict with a shortage, for two rooms of one type
C8_Witness ==
  /\ pc = "done"
  /\ result.shortage > 0 /\ ~ result.isValid
  /\ result.usableArea > 0
  /\ \E i \in 1..Len(input.rooms) : input.rooms[i].count = 2

\* ---------------------------------------------- the process: calls and cache

\* the number of calls that may be in progress at once
MaxCalls == 2

CallIds == 1..MaxCalls

\* the template floor, a floor the heuristic engine lays out, and a floor
\* too small for its rooms
ProcessInputs ==
  {FloorInput(400, 100, "W", 40, 20, Null,
              <<"living", "kitchen", "bed", "bed", "wc", "wc">>),
   FloorInput(100, 80, "S", 40, 20, Null, <<"living", "bed">>),
   FloorInput(30, 30, "N", 0, 8, [exteriorThickness |-> 8], <<"bed", "wc">>)}

Pending == [status |-> "pending"]

Resolved(value) == [status |-> "resolved", value |-> value]

Rejected(error) == [status |-> "rejected", error |-> error]

\* a call that has not been made
IdleCall ==
  [kind |-> "idle", input |-> Null, skipValidation |-> FALSE, at |-> "none",
   fetching |-> FALSE, loaded |-> Null, presetsData |-> Null, voidRatio |-> 0,
   validation |-> Null, engine |-> Null, outcome |-> Pending]

\* no call is inside the placement loop: JavaScript runs the synchronous
\* code after an await to the next await or return before anything else
NoneRunning == \A c \in CallIds : call[c].at # "placing"

\* loadRoomPresets up to its await, called from the function `at`: the memo
\* when it is set, else a request is issued and the call waits for it
LoadCall(c, at) ==
  [c EXCEPT !.at = at, !.fetching = IsNull(cachedPresetsData),
            !.loaded = cachedPresetsData]

Issued == IF IsNull(cachedPresetsData) THEN 1 ELSE 0

\* the served body is any catalogue, well formed or not, or null
InitProcess ==
  /\ cachedPresetsData = Null
  /\ VOID_RATIO = VOID_RATIO_DEFAULT
  /\ catalogue \in WellFormed \cup Malformed \cup {Null}
  /\ requests = 0
  /\ writes = 0
  /\ layout = Null
  /\ isGenerating = FALSE
  /\ call = [c \in CallIds |-> IdleCall]
  /\ pc = "process"
  /\ input = Null
  /\ skipValidation = FALSE
  /\ presetsData = Null
  /\ validation = Null
  /\ engine = Null
  /\ result = Null

procVars == <<layout, isGenerating, pc, input, skipValidation, presetsData,
              validation, engine, result>>

\* generateLayout(input, skipValidation) up to its first await (line 419)
StartGenerate(c) ==
  /\ NoneRunning
  /\ call[c].kind = "idle"
  /\ \E in \in ProcessInputs, skip \in BOOLEAN :
       call' = [call EXCEPT ![c] =
                  LoadCall([IdleCall EXCEPT !.kind = "generateLayout",
                                            !.input = in,
                                            !.skipValidation = skip],
                           "generateLayout")]
  /\ requests' = requests + Issued
  /\ UNCHANGED <<cachedPresetsData, VOID_RATIO, catalogue, writes, procVars>>

\* validateBeforeGenerate(input) up to the await of line 151: VOID_RATIO is
\* read for the argument before loadRoomPresets is called
StartValidate(c) ==
  /\ NoneRunning
  /\ call[c].kind = "idle"
  /\ \E in \in ProcessInputs :
       call' = [call EXCEPT ![c] =
                  LoadCall([IdleCall EXCEPT !.kind = "validateBeforeGenerate",
                                            !.input = in,
                                            !.voidRatio = VOID_RATIO],
                           "validateRoomAreaRequirements")]
  /\ requests' = requests + Issued
  /\ UNCHANGED <<cachedPresetsData, VOID_RATIO, catalogue, writes, procVars>>

\* the request is answered with status 200: lines 84-92, and the catch of
\* line 95 when the body is null
FetchOk(c) ==
  /\ NoneRunning
  /\ call[c].fetching
  /\ cachedPresetsData' = catalogue
  /\ VOID_RATIO' = UpdatedVoidRatio(catalogue, VOID_RATIO)
  /\ writes' = writes + 1
  /\ call' = [call EXCEPT ![c].fetching = FALSE, ![c].loaded = catalogue]
  /\ UNCHANGED <<catalogue, requests, procVars>>

\* the request fails or is answered with another status: lines 94-98
FetchFail(c) ==
  /\ NoneRunning
  /\ call[c].fetching
  /\ call' = [call EXCEPT ![c].fetching = FALSE, ![c].loaded = Null]
  /\ UNCHANGED <<cachedPresetsData, VOID_RATIO, catalogue, requests, writes,
                 procVars>>

\* generateLayout resumes after line 419: the validation starts unless it is
\* skipped, else tryFixedLayout is called
AfterLoad(c) ==
  /\ call[c].kind = "generateLayout" /\ call[c].at = "generateLayout"
  /\ ~ call[c].fetching
  /\ NoneRunning
  /\ LET own == [call[c] EXCEPT !.presetsData = call[c].loaded]
     IN  call' = [call EXCEPT ![c] =
                    IF own.skipValidation
                    THEN LoadCall(own, "tryFixedLayout")
                    ELSE LoadCall([own EXCEPT !.voidRatio = VOID_RATIO],
                                  "validateRoomAreaRequirements")]
  /\ requests' = requests + Issued
  /\ UNCHANGED <<cachedPresetsData, VOID_RATIO, catalogue, writes, procVars>>

\* the verdict of the call's validateRoomAreaRequirements, from the
\* catalogue its own loadRoomPresets returned
VerdictOf(c) ==
  validateRoomAreaRequirements(
    c.input.floor.width, c.input.floor.height, countRoomsByType(c.input.rooms),
    c.voidRatio, ExteriorThickness(c.input, DefaultThickness), c.loaded)

\* generateLayout resumes after line 431: a thrown error is caught at line
\* 441 and leaves validation undefined; tryFixedLayout is called
AfterValidation(c) ==
  /\ call[c].kind = "generateLayout"
  /\ call[c].at = "validateRoomAreaRequirements"
  /\ ~ call[c].fetching
  /\ NoneRunning
  /\ LET v == VerdictOf(call[c])
     IN  call' = [call EXCEPT ![c] =
                    LoadCall([call[c] EXCEPT !.validation =
                                IF Threw(v) THEN Null ELSE v],
                             "tryFixedLayout")]
  /\ requests' = requests + Issued
  /\ UNCHANGED <<cachedPresetsData, VOID_RATIO, catalogue, writes, procVars>>

\* generateLayout resumes after line 294: the template when it matches, else
\* the sizing and seeding of the heuristic engine on the snapshot of line 419
AfterFixed(c) ==
  /\ call[c].kind = "generateLayout" /\ call[c].at = "tryFixedLayout"
  /\ ~ call[c].fetching
  /\ NoneRunning
  /\ LET fixed == tryFixedLayout(call[c].input, call[c].loaded)
         h == HeuristicStart(call[c].input, call[c].presetsData, VOID_RATIO,
                             call[c].validation)
     IN  call' = [call EXCEPT ![c] =
                    IF Threw(fixed)
                    THEN [@ EXCEPT !.at = "settled",
                                   !.outcome = Rejected(fixed)]
                    ELSE IF ~ IsNull(fixed)
                    THEN [@ EXCEPT !.at = "settled", !.outcome =
                            Resolved(fixed @@ [validation |-> call[c].validation])]
                    ELSE IF Threw(h)
                    THEN [@ EXCEPT !.at = "settled", !.outcome = Rejected(h)]
                    ELSE [@ EXCEPT !.at = "placing", !.engine = h]]
  /\ UNCHANGED <<cachedPresetsData, VOID_RATIO, catalogue, requests, writes,
                 procVars>>

\* lines 719-733: one turn of the placement loop of call c
PlaceTurn(c) ==
  /\ call[c].at = "placing"
  /\ call[c].engine.todo # <<>>
  /\ call' = [call EXCEPT ![c].engine =
                HeuristicStep(call[c].input, call[c].engine,
                              call[c].presetsData)]
  /\ UNCHANGED <<cachedPresetsData, VOID_RATIO, catalogue, requests, writes,
                 procVars>>

\* lines 735-758: generateLayout returns the heuristic layout
Return(c) ==
  /\ call[c].at = "placing"
  /\ call[c].engine.todo = <<>>
  /\ call' = [call EXCEPT ![c].at = "settled", ![c].engine = Null,
                          ![c].outcome =
                            Resolved(HeuristicFinish(call[c].input,
                                                     call[c].engine,
                                                     call[c].validation))]
  /\ UNCHANGED <<cachedPresetsData, VOID_RATIO, catalogue, requests, writes,
                 procVars>>

\* validateBeforeGenerate resumes after line 151 and settles: nothing
\* catches what getRoomConfig throws
ValidateSettles(c) ==
  /\ call[c].kind = "validateBeforeGenerate"
  /\ call[c].at = "validateRoomAreaRequirements"
  /\ ~ call[c].fetching
  /\ NoneRunning
  /\ LET v == VerdictOf(call[c])
     IN  call' = [call EXCEPT ![c].at = "settled", ![c].outcome =
                    IF Threw(v) THEN Rejected(v) ELSE Resolved(v)]
  /\ UNCHANGED <<cachedPresetsData, VOID_RATIO, catalogue, requests, writes,
                 procVars>>

Next ==
  \/ \E c \in CallIds : StartGenerate(c)
  \/ \E c \in CallIds : StartValidate(c)
  \/ \E c \in CallIds : FetchOk(c)
  \/ \E c \in CallIds : FetchFail(c)
  \/ \E c \in CallIds : AfterLoad(c)
  \/ \E c \in CallIds : AfterValidation(c)
  \/ \E c \in CallIds : AfterFixed(c)
  \/ \E c \in CallIds : PlaceTurn(c)
  \/ \E c \in CallIds : Return(c)
  \/ \E c \in CallIds : ValidateSettles(c)

Spec == InitProcess /\ [][Next]_vars

\* C10: whatever the catalogue fetch returns (a failure, or a 200 response
\* with a malformed body), no generateLayout or validateBeforeGenerate call
\* rejects.
C10_NeverRejects ==
  \A c \in CallIds : call[c].outcome.status # "rejected"

\* ------------------------------------------ properties of the catalogue load

\* C11: over any sequence of generateLayout / validateBeforeGenerate calls,
\* also when a fetch fails, the request for the catalogue is issued at most
\* once.
C11_AtMostOneFetch == requests <= 1

\* C12: a loadRoomPresets call that starts while a catalogue fetch is still
\* in flight waits for that fetch: no step taken while some call is fetching
\* issues a request.
C12_SharedInFlightFetch ==
  [][(\E c \in CallIds : call[c].fetching) => requests' = requests]_vars

\* C13: once cachedPresetsData has been set by a successful load, neither
\* cachedPresetsData nor VOID_RATIO is assigned again.
C13_WriteOnce ==
  [][~ IsNull(cachedPresetsData)
       => /\ writes' = writes
          /\ cachedPresetsData' = cachedPresetsData
          /\ VOID_RATIO' = VOID_RATIO]_vars

\* ---------------------------------------------------- getRoomConfig, alone

\* type strings that are no RoomType
OtherTypes == {"office", "garage", "balcony", "storage", ""}

\* a catalogue whose list of types is empty
CatEmpty == [roomTypes |-> <<>>]

ConfigArgs ==
  [roomType : RoomTypes \cup OtherTypes,
   presetsData : {Null, CatEmpty} \cup WellFormed \cup Malformed]

InitConfig ==
  /\ cachedPresetsData = Null
  /\ VOID_RATIO = VOID_RATIO_DEFAULT
  /\ catalogue = Null
  /\ requests = 0
  /\ writes = 0
  /\ layout = Null
  /\ isGenerating = FALSE
  /\ call = Null
  /\ pc = "config"
  /\ input \in ConfigArgs
  /\ skipValidation = FALSE
  /\ presetsData = Null
  /\ validation = Null
  /\ engine = Null
  /\ result = Null

\* getRoomConfig(roomType, presetsData): returns, or throws
ConfigStep ==
  /\ pc = "config"
  /\ LET config == GetRoomConfig(input.roomType, input.presetsData)
     IN  /\ pc' = IF Threw(config) THEN "rejected" ELSE "done"
         /\ result' = IF Threw(config) THEN result ELSE config
  /\ UNCHANGED <<moduleVars, input, skipValidation, presetsData, validation,
                 engine>>

NextConfig == ConfigStep

SpecConfig == InitConfig /\ [][NextConfig]_vars

\* the catalogue is unavailable, or lists types but not roomType
Unsupplied(roomType, data) ==
  \/ IsNull(data)
  \/ /\ "roomTypes" \in DOMAIN data
     /\ \A i \in 1..Len(data.roomTypes) : data.roomTypes[i].type # roomType

\* C14: when the catalogue is unavailable, or available but lacking the
\* requested type, getRoomConfig returns without raising the built-in
\* constants: living (20 m2, 1.25, #b3e5fc), bed (14 m2, 4/3.5, #ffe082),
\* kitchen (9 m2, 1.0, #c8e6c9), wc (4 m2, 1.0, #ffccbc) with their labels,
\* and for any other type area 10 m2, aspect 1.2, #f5f5f5 and the raw type
\* string as label.
C14_FallbackValues ==
  (pc # "config" /\ Unsupplied(input.roomType, input.presetsData)) =>
    /\ pc = "done"
    /\ result.color.hash
    /\ LET t == input.roomType
           is(area, num, den, hex, label) ==
             /\ result.area = area
             /\ result.aspect.num * den = num * result.aspect.den
             /\ result.color.hex = hex
             /\ result.label = label
       IN  CASE t = "living"  -> is(8000, 125, 100, "b3e5fc", "Phong khach")
             [] t = "bed"     -> is(5600, 40, 35, "ffe082", "Phong ngu")
             [] t = "kitchen" -> is(3600, 1, 1, "c8e6c9", "Bep")
             [] t = "wc"      -> is(1600, 1, 1, "ffccbc", "WC")
             [] OTHER         -> is(4000, 12, 10, "f5f5f5", t)

\* C14 witness: a loaded catalogue without the type, and a type that is not
\* built in, answered with the generic default
C14_Witness ==
  /\ pc = "done"
  /\ input.presetsData = CatBedOnly
  /\ input.roomType = "office"
  /\ result.label = "office"

\* ------------------------------------------------ validation is advisory

\* generateLayout(input, true) on the snapshot presetsData, from line 446 to
\* its return: the template, else the heuristic engine, with no verdict
SkippedRun(in, data, voidRatio) ==
  LET fixed == tryFixedLayout(in, data)
      h0 == HeuristicStart(in, data, voidRatio, Null)
  IN  IF Threw(fixed) THEN TypeError
      ELSE IF ~ IsNull(fixed) THEN fixed @@ [validation |-> Null]
      ELSE IF Threw(h0) THEN TypeError
      ELSE HeuristicFinish(in, HeuristicRun(in, h0, data), Null)

\* the warnings that are not the efficiency warnings of lines 465-470
NotEfficiency(warnings) ==
  SelectSeq(warnings,
            LAMBDA w : w.kind \notin {"lowEfficiency", "highEfficiency"})

handleRoomEditAll(prev, id, patch) ==
  IF IsNull(prev) THEN prev
  ELSE [prev EXCEPT !.rooms = [i \in 1..Len(@) |-> patch @@ @[i]]]

handleRoomEdit(prev, id, patch) ==
  IF IsNull(prev) THEN prev
  ELSE [prev EXCEPT !.rooms =
          [i \in 1..Len(@) |-> IF @[i].id = id THEN patch @@ @[i] ELSE @[i]]]

\* a living room and a bedroom with two doors on a 5 m x 4 m floor, and a
\* kitchen with a door and a wc on a 3 m x 5 m floor
EditInputs ==
  {WithDoors(FloorInput(100, 80, "S", 40, 20, Null, <<"living", "bed">>), 2,
             <<Door("N", 16, 50), Door("E", 18, 25)>>),
   WithDoors(FloorInput(60, 100, "W", 0, 8, [exteriorThickness |-> 8],
                        <<"kitchen", "wc">>), 1, <<Door("S", 16, 0)>>)}

\* what the page may show: nothing, or what generateLayout(data, true)
\* returned for an input (handleSubmit, line 42)
EditLayouts ==
  {Null} \cup {SkippedRun(in, Null, VOID_RATIO_DEFAULT) : in \in EditInputs}

\* the ids of the rooms, and an id that no room has
EditIds == {1, 2, 99}

\* the value a patch gives to a field
PatchValue == 14

\* every patch over x, y, w, h, from the empty one to the one onUp sends
Patches == UNION {[S -> {PatchValue}] : S \in SUBSET {"x", "y", "w", "h"}}

InitEdit ==
  /\ cachedPresetsData = Null
  /\ VOID_RATIO = VOID_RATIO_DEFAULT
  /\ catalogue = Null
  /\ requests = 0
  /\ writes = 0
  /\ layout \in EditLayouts
  /\ isGenerating = FALSE
  /\ call = Null
  /\ pc = "page"
  /\ input = Null
  /\ skipValidation = FALSE
  /\ presetsData = Null
  /\ validation = Null
  /\ engine = Null
  /\ result = Null

\* handleRoomEdit(id, patch); input keeps the arguments of the last call
RoomEdit ==
  /\ pc = "page"
  /\ \E id \in EditIds, patch \in Patches :
       /\ input' = [id |-> id, patch |-> patch]
       /\ layout' = handleRoomEdit(layout, id, patch)
  /\ UNCHANGED <<cachedPresetsData, VOID_RATIO, catalogue, requests, writes,
                 isGenerating, call, pc, skipValidation, presetsData,
                 validation, engine, result>>

NextEdit == RoomEdit

SpecEdit == InitEdit /\ [][NextEdit]_vars

\* C16: handleRoomEdit(id, patch) changes only the x, y, w, h fields named
\* in the patch, on the one room whose id matches; that room's other fields,
\* every other room, the floor, the warnings and the validation verdict are
\* unchanged; a patch for an id that is not in the layout, or arriving when
\* there is no layout, changes nothing.
C16_GeometryOnlyEdit ==
  [][LET id == input'.id
         patch == input'.patch
     IN  IF IsNull(layout) THEN layout' = layout
         ELSE /\ DOMAIN layout' = DOMAIN layout
              /\ \A f \in DOMAIN layout \ {"rooms"} : layout'[f] = layout[f]
              /\ Len(layout'.rooms) = Len(layout.rooms)
              /\ \A i \in 1..Len(layout.rooms) :
                   LET r == layout.rooms[i]
                       edited == layout'.rooms[i]
                   IN  IF r.id # id THEN edited = r
                       ELSE /\ DOMAIN edited = DOMAIN r
                            /\ \A f \in DOMAIN r :
                                 edited[f] = IF f \in DOMAIN patch
                                             THEN patch[f] ELSE r[f]]_vars

\* C16 witness: a patch of x alone has moved the room that carries doors
C16_Witness ==
  /\ ~ IsNull(layout) /\ ~ IsNull(input)
  /\ DOMAIN input.patch = {"x"}
  /\ \E i \in 1..Len(layout.rooms) :
       /\ layout.rooms[i].id = input.id
       /\ "rawDoors" \in DOMAIN layout.rooms[i]
       /\ layout.rooms[i].x = PatchValue
       /\ layout.rooms[i].w # PatchValue

\* ------------------------------------------------------- door attachment

\* the input with no door on any room
NoDoors(in) ==
  [in EXCEPT !.rooms = [i \in 1..Len(@) |-> [@[i] EXCEPT !.doors = <<>>]]]

\* C17: in every result, template or heuristic, each placed room whose
\* request has a non-empty door list carries rawDoors equal to that list
\* (same order, side, width and offsetRatio, unclamped), each placed room
\* whose request has no doors carries no rawDoors, and the rooms are placed
\* where the same request without doors places them.
C17_DoorAttachment ==
  Returned =>
    /\ \A i \in 1..Len(result.rooms) :
         LET p == result.rooms[i]
             req == input.rooms[CHOOSE j \in 1..Len(input.rooms) :
                                  input.rooms[j].id = p.id]
         IN  IF req.doors = <<>> THEN "rawDoors" \notin DOMAIN p
             ELSE /\ "rawDoors" \in DOMAIN p
                  /\ Len(p.rawDoors) = Len(req.doors)
                  /\ \A k \in 1..Len(req.doors) :
                       /\ DOMAIN p.rawDoors[k]
                            = {"side", "width", "offsetRatio"}
                       /\ p.rawDoors[k].side = req.doors[k].side
                       /\ p.rawDoors[k].width = req.doors[k].width
                       /\ p.rawDoors[k].offsetRatio = req.doors[k].offsetRatio
    /\ Geometry(result.rooms)
         = Geometry(SkippedRun(NoDoors(input), presetsData, VOID_RATIO).rooms)

\* C17 witness: the heuristic engine returned a room with two doors, one of
\* them 30 m wide, next to a room without doors
C17_Witness ==
  /\ Returned /\ HeuristicRan
  /\ \E i, j \in 1..Len(result.rooms) :
       /\ "rawDoors" \in DOMAIN result.rooms[i]
       /\ Len(result.rooms[i].rawDoors) = 2
       /\ result.rooms[i].rawDoors[1].width = 600
       /\ "rawDoors" \notin DOMAIN result.rooms[j]

\* --------------------------------------------------- living-room seeding

\* the request names a living room
HasLiving(in) == \E i \in 1..Len(in.rooms) : in.rooms[i].type = "living"

C19_CornerShrinkBound ==
  [][(pc = "place" /\ engine.todo # <<>>) =>
       LET r == Head(engine.todo)
           c == TryCorners(r, input.floor.mainDoor.edge, engine.placed,
                           engine.livingRect, engine.usableW, engine.usableH)
           emitted == engine'.placed[Len(engine'.placed)]
       IN  ~ IsNull(c) =>
             /\ Len(engine'.placed) = Len(engine.placed) + 1
             /\ emitted.id = r.id
             /\ c.k \in 0..24
             /\ emitted.w = Shrunk(r.w, c.k) /\ emitted.h = Shrunk(r.h, c.k)
             /\ r.w * ShrinkTable[c.k] >= MIN_SIDE * 1000000
             /\ r.h * ShrinkTable[c.k] >= MIN_SIDE * 1000000]_vars

\* the rectangle of a placed room
Rect(p) == [x |-> p.x, y |-> p.y, w |-> p.w, h |-> p.h]

\* ------------------------------------------------- C20: the fallback order

\* the shrink levels the loop of tryPlaceCorner reaches for room r when every
\* earlier level clashed
Levels(r) ==
  {k \in 0..24 : \A j \in 0..(k - 1) :
                   AboveMinSide(r.w, j) /\ AboveMinSide(r.h, j)}

\* the candidate of room r in the i-th corner of the order at shrink level k
CornerCand(r, edge, i, k, usableW, usableH) ==
  LET tgt == idealCornerCenterUsable(usableW, usableH,
                                     cornerOrderByDoor[edge][i],
                                     Shrunk(r.w, k), Shrunk(r.h, k))
  IN  [x |-> tgt.x, y |-> tgt.y, w |-> Shrunk(r.w, k), h |-> Shrunk(r.h, k)]

\* the candidate of room r at the midpoint of the i-th wall of W, E, S, N
WallCand(r, i, usableW, usableH) ==
  [x |-> CASE i = 1 -> - usableW + r.w [] i = 2 -> usableW - r.w
           [] OTHER -> 0,
   y |-> CASE i = 3 -> - usableH + r.h [] i = 4 -> usableH - r.h
           [] OTHER -> 0,
   w |-> r.w, h |-> r.h]

\* the candidate of room r at column i and row j of the grid, counted from the
\* minimum corner in steps of GRID_STEP
GridCand(r, i, j, usableW, usableH) ==
  [x |-> - usableW + r.w + 2 * GRID_STEP * i,
   y |-> - usableH + r.h + 2 * GRID_STEP * j,
   w |-> r.w, h |-> r.h]

\* the columns (n = usableW, s = r.w) and rows (n = usableH, s = r.h) of the
\* grid: those whose centre is not beyond n - s
GridIndex(n, s) ==
  {i \in 0..((2 * n) \div (2 * GRID_STEP) + 1) :
     - n + s + 2 * GRID_STEP * i <= n - s}

\* the corner candidates <<i, k>>, the walls i and the grid positions <<j, i>>
\* (row first) that overlap nothing placed, for the room at the head of todo
FreeCorners ==
  {c \in (1..4) \X Levels(Head(engine.todo)) :
     ~ Clash(CornerCand(Head(engine.todo), input.floor.mainDoor.edge, c[1],
                        c[2], engine.usableW, engine.usableH),
             engine.placed, engine.livingRect)}

FreeWalls ==
  {i \in 1..4 :
     ~ Clash(WallCand(Head(engine.todo), i, engine.usableW, engine.usableH),
             engine.placed, engine.livingRect)}

FreeGrid ==
  {c \in GridIndex(engine.usableH, Head(engine.todo).h)
           \X GridIndex(engine.usableW, Head(engine.todo).w) :
     ~ Clash(GridCand(Head(engine.todo), c[2], c[1], engine.usableW,
                      engine.usableH),
             engine.placed, engine.livingRect)}

\* c comes first in the set S of pairs, ordered by first then second component
FirstOf(c, S) ==
  c \in S /\ \A d \in S : c[1] < d[1] \/ (c[1] = d[1] /\ c[2] <= d[2])

\* C20: on each turn of the placement loop the room at the head is emitted
\* at the first overlap-free candidate of the order: corners in the door's
\* order, each at its shrink levels in turn; else, at unshrunk size, the wall
\* midpoints W, E, S, N; else, at unshrunk size, the grid positions by row
\* from the minimum corner, each row by column, in steps of 1 m; and when no
\* candidate is free nothing is emitted and the warning naming the room's
\* label is appended.
C20_FallbackOrder ==
  [][(pc = "place" /\ engine.todo # <<>>) =>
       LET r == Head(engine.todo)
           last == engine'.placed[Len(engine'.placed)]
           emitted == /\ Len(engine'.placed) = Len(engine.placed) + 1
                      /\ SubSeq(engine'.placed, 1, Len(engine.placed))
                           = engine.placed
                      /\ last.id = r.id
                      /\ engine'.warnings = engine.warnings
       IN  /\ FreeCorners # {} =>
                /\ emitted
                /\ \E c \in FreeCorners :
                     /\ FirstOf(c, FreeCorners)
                     /\ Rect(last)
                          = CornerCand(r, input.floor.mainDoor.edge, c[1],
                                       c[2], engine.usableW, engine.usableH)
           /\ (FreeCorners = {} /\ FreeWalls # {}) =>
                /\ emitted
                /\ \E i \in FreeWalls :
                     /\ \A j \in FreeWalls : i <= j
                     /\ Rect(last)
                          = WallCand(r, i, engine.usableW, engine.usableH)
           /\ (FreeCorners = {} /\ FreeWalls = {} /\ FreeGrid # {}) =>
                /\ emitted
                /\ \E c \in FreeGrid :
                     /\ FirstOf(c, FreeGrid)
                     /\ Rect(last)
                          = GridCand(r, c[2], c[1], engine.usableW,
                                     engine.usableH)
           /\ (FreeCorners = {} /\ FreeWalls = {} /\ FreeGrid = {}) =>
                /\ engine'.placed = engine.placed
                /\ engine'.warnings
                     = Append(engine.warnings,
                              CannotPlace(GetRoomConfig(r.type,
                                                        presetsData).label))]_vars

\* a turn of the loop has emitted a room other than the seeded one at
\* unshrunk size at a wall midpoint that is no corner candidate of any level
C20_Witness ==
  /\ pc = "place"
  /\ Len(engine.placed) >= 2
  /\ LET p == engine.placed[Len(engine.placed)]
     IN  \E n \in 1..Len(engine.sized) :
           LET r == engine.sized[n]
           IN  /\ r.id = p.id /\ p.w = r.w /\ p.h = r.h
               /\ \E i \in 1..4 :
                    Rect(p) = WallCand(r, i, engine.usableW, engine.usableH)
               /\ \A i \in 1..4, k \in 0..24 :
                    Rect(p) # CornerCand(r, input.floor.mainDoor.edge, i, k,
                                         engine.usableW, engine.usableH)

\* ---------------------------------------------- C21: the placement priority

\* the position of the room with identifier id in the request
RequestIndex(in, id) == CHOOSE i \in 1..Len(in.rooms) : in.rooms[i].id = id

\* room a comes before room b in the order bed, kitchen, wc, the rest, rooms
\* of one rank in the order of the request
Before(in, a, b) ==
  \/ prio(a.type) < prio(b.type)
  \/ /\ prio(a.type) = prio(b.type)
     /\ RequestIndex(in, a.id) < RequestIndex(in, b.id)

\* the rooms of the engine state h that were or will be attempted by the
\* placement loop: the placed ones but the seeded living room, then todo
Attempts(h) ==
  SubSeq(h.placed, (IF IsNull(h.livingRect) THEN 1 ELSE 2), Len(h.placed))
    \o h.todo

\* C21: on the heuristic path the rooms other than the seeded living room
\* are attempted, and appear in the result, in the order bed, kitchen, wc,
\* further living rooms, rooms of one type in request order; a turn of the
\* loop leaves every room placed before it as it was.
C21_PlacementPriority ==
  [][HeuristicRan' =>
       /\ \A i, j \in 1..Len(Attempts(engine')) :
            i < j => Before(input, Attempts(engine')[i], Attempts(engine')[j])
       /\ HeuristicRan =>
            /\ Len(engine'.placed) >= Len(engine.placed)
            /\ SubSeq(engine'.placed, 1, Len(engine.placed)) = engine.placed
       /\ pc' = "done" =>
            /\ Len(result'.rooms) = Len(engine'.placed)
            /\ \A i \in 1..Len(result'.rooms) :
                 /\ result'.rooms[i].id = engine'.placed[i].id
                 /\ RectOf(result'.rooms[i]) = RectOf(engine'.placed[i])]_vars

\* a result of the heuristic engine in which a room requested later stands
\* before a room requested earlier, neither being the seeded living room
C21_Witness ==
  /\ Returned /\ HeuristicRan
  /\ \E i, j \in 1..Len(result.rooms) :
       /\ i < j
       /\ RequestIndex(input, result.rooms[i].id)
            > RequestIndex(input, result.rooms[j].id)
       /\ IsNull(engine.livingRect) \/ i > 1

\* ------------------------------------------------ C22: the void ratio

\* the catalogue data carries a void ratio
DeclaresVoidRatio(data) ==
  /\ ~ IsNull(data)
  /\ "defaults" \in DOMAIN data
  /\ "voidRatio" \in DOMAIN data.defaults

\* C22: once a catalogue that declares a void ratio v is loaded, the void
\* ratio that sizing and validation read is v, for every v in [0, 1), v = 0
\* included; before the load, and when the loaded catalogue declares none,
\* it is the default 0.15.
C22_VoidRatioOverride ==
  VOID_RATIO = IF DeclaresVoidRatio(cachedPresetsData)
               THEN cachedPresetsData.defaults.voidRatio
               ELSE VOID_RATIO_DEFAULT

\* ------------------------------------- C23: validate-only and generation

\* call c has resolved
HasResolved(c) == call[c].at = "settled" /\ call[c].outcome.status = "resolved"

\* C23: for one input and one catalogue resource, every fetch of which
\* succeeded, the verdict validateBeforeGenerate resolves with equals the
\* validation field of what generateLayout(input, false) resolves with,
\* whether or not the catalogue was cached when either call started.
C23_ValidateAgrees ==
  pc = "process" =>
    \A c, d \in CallIds :
      ( /\ call[c].kind = "validateBeforeGenerate" /\ HasResolved(c)
        /\ call[d].kind = "generateLayout" /\ HasResolved(d)
        /\ ~ call[d].skipValidation
        /\ call[c].input = call[d].input
        /\ requests = writes )
      => call[c].outcome.value = call[d].outcome.value.validation

\* ------------------------------------------- C24: one snapshot per call

\* C24: within one generateLayout call the verdict (computed when the call
\* leaves validateRoomAreaRequirements) and the template styling (computed
\* when it leaves tryFixedLayout) use the catalogue snapshot the heuristic
\* sizing and styling use, the one the call loaded first, also when one of
\* the call's fetches failed and a later one succeeded.
C24_OneSnapshot ==
  [][\A c \in CallIds :
       ( /\ call[c].kind = "generateLayout"
         /\ call[c].at \in {"validateRoomAreaRequirements", "tryFixedLayout"}
         /\ call'[c].at # call[c].at )
       => call[c].loaded = call[c].presetsData]_vars

\* -------------------------------------------- C25: the threshold warnings

\* the result carries a warning of the kind
Warns(kind) == \E i \in 1..Len(result.warnings) : result.warnings[i].kind = kind

MaxCentre == 2

MaxSide == 2

\* rectangle a with its centre on a whole or a half unit next to the origin,
\* rectangle b anywhere around it; sides from 0
OverlapArgs ==
  [a : [x : 0..1, y : 0..1, w : 0..MaxSide, h : 0..MaxSide],
   b : [x : (- MaxCentre)..MaxCentre, y : (- MaxCentre)..MaxCentre,
        w : 0..MaxSide, h : 0..MaxSide]]

InitOverlap ==
  /\ cachedPresetsData = Null
  /\ VOID_RATIO = VOID_RATIO_DEFAULT
  /\ catalogue = Null
  /\ requests = 0
  /\ writes = 0
  /\ layout = Null
  /\ isGenerating = FALSE
  /\ call = Null
  /\ pc = "overlap"
  /\ input \in OverlapArgs
  /\ skipValidation = FALSE
  /\ presetsData = Null
  /\ validation = Null
  /\ engine = Null
  /\ result = Null

\* rectsOverlap(a, b) and rectsOverlap(b, a)
OverlapStep ==
  /\ pc = "overlap"
  /\ result' = [ab |-> rectsOverlap(input.a, input.b),
                ba |-> rectsOverlap(input.b, input.a)]
  /\ pc' = "done"
  /\ UNCHANGED <<moduleVars, input, skipValidation, presetsData, validation,
                 engine>>

NextOverlap == OverlapStep

SpecOverlap == InitOverlap /\ [][NextOverlap]_vars

Abs(n) == IF n < 0 THEN - n ELSE n

\* C26: for centred rectangles a and b with sides >= 0, rectsOverlap(a, b)
\* is true iff |a.x - b.x| < (a.w + b.w) / 2 and |a.y - b.y| < (a.h + b.h) / 2
\* (centres in half units here, so both sides are doubled); it is therefore
\* symmetric, and false for rectangles that touch at an edge or a corner.
C26_OverlapReference ==
  pc = "done" =>
    LET a == input.a
        b == input.b
        dx == Abs(a.x - b.x)
        dy == Abs(a.y - b.y)
    IN  /\ result.ab <=> (dx < a.w + b.w /\ dy < a.h + b.h)
        /\ result.ba = result.ab
        /\ (dx = a.w + b.w \/ dy = a.h + b.h) => ~ result.ab

\* two rectangles with positive sides that share a part of an edge, compared
C26_Witness ==
  /\ pc = "done"
  /\ input.a.w > 0 /\ input.a.h > 0 /\ input.b.w > 0 /\ input.b.h > 0
  /\ Abs(input.a.x - input.b.x) = input.a.w + input.b.w
  /\ Abs(input.a.y - input.b.y) < input.a.h + input.b.h
  /\ ~ result.ab

\* ------------------------------------------------- C27: output identity

\* the requests of the input that carry the identifier id
RequestsWithId(in, id) == {i \in 1..Len(in.rooms) : in.rooms[i].id = id}

\* C27: in every result of generateLayout, by the template or by the
\* heuristic engine, the identifiers of the placed rooms are pairwise
\* distinct, and each placed room has the identifier and the type of one
\* requested room; no rectangle is emitted for an identifier that was not
\* requested.
C27_OutputIdentity ==
  Returned =>
    /\ \A i, j \in 1..Len(result.rooms) :
         i # j => result.rooms[i].id # result.rooms[j].id
    /\ \A i \in 1..Len(result.rooms) :
         /\ RequestsWithId(input, result.rooms[i].id) # {}
         /\ \A n \in RequestsWithId(input, result.rooms[i].id) :
              input.rooms[n].type = result.rooms[i].type

\* a result of the heuristic engine with two placed rooms of one type
C27_Witness ==
  /\ Returned /\ HeuristicRan
  /\ \E i, j \in 1..Len(result.rooms) :
       i < j /\ result.rooms[i].type = result.rooms[j].type

\* ------------------------------------------------ the page: handleSubmit

\* variant: the page goes on to generateLayout whatever the verdict
ProceedsAlways(verdict) == TRUE

\* if (!validation.isValid) { toast.error(...); return; }
Proceeds(verdict) == verdict.isValid

\* what the form submits: the inputs of the process and a second floor that
\* passes the validation with the catalogue and without it
PageInputs ==
  ProcessInputs
    \cup {FloorInput(200, 100, "E", 0, 8, Null, <<"bed", "kitchen", "wc">>)}

\* a submission c is a call slot: its validateBeforeGenerate call, then its
\* generateLayout(data, true) call; `input` holds the data submitted last and
\* the submission it started
InitPage ==
  /\ cachedPresetsData = Null
  /\ VOID_RATIO = VOID_RATIO_DEFAULT
  /\ catalogue \in WellFormed \cup Malformed \cup {Null}
  /\ requests = 0
  /\ writes = 0
  /\ layout = Null
  /\ isGenerating = FALSE
  /\ call = [c \in CallIds |-> IdleCall]
  /\ pc = "page"
  /\ input = Null
  /\ skipValidation = FALSE
  /\ presetsData = Null
  /\ validation = Null
  /\ engine = Null
  /\ result = Null

\* no submission can run: each is not made, waits for its fetch or has
\* settled.  A click or a response is handled only then, since a submission
\* that resumes runs on in microtasks until it awaits a fetch or settles.
Quiet ==
  \A c \in CallIds :
    call[c].kind = "idle" \/ call[c].fetching \/ call[c].at = "returned"

\* the form is submitted: handleSubmit up to the await of line 21, that is
\* validateBeforeGenerate(data) up to the await of line 151
Submit(c) ==
  /\ Quiet
  /\ call[c].kind = "idle"
  /\ \E data \in PageInputs :
       /\ call' = [call EXCEPT ![c] =
                     LoadCall([IdleCall EXCEPT
                                 !.kind = "validateBeforeGenerate",
                                 !.input = data, !.voidRatio = VOID_RATIO],
                              "validateRoomAreaRequirements")]
       /\ input' = [data |-> data, submission |-> c]
  /\ isGenerating' = TRUE
  /\ requests' = requests + Issued
  /\ UNCHANGED <<cachedPresetsData, VOID_RATIO, catalogue, writes, layout, pc,
                 skipValidation, presetsData, validation, engine, result>>

\* handleSubmit resumes after line 21 with a verdict that is not valid
\* (lines 23-40), or in the catch when the validation rejected (lines 43-45);
\* then the finally of line 47
SubmitStops(c) ==
  /\ NoneRunning
  /\ call[c].kind = "validateBeforeGenerate" /\ call[c].at = "settled"
  /\ \/ call[c].outcome.status = "rejected"
     \/ /\ call[c].outcome.status = "resolved"
        /\ ~ Proceeds(call[c].outcome.value)
  /\ call' = [call EXCEPT ![c].at = "returned"]
  /\ isGenerating' = FALSE
  /\ UNCHANGED <<cachedPresetsData, VOID_RATIO, catalogue, requests, writes,
                 layout, pc, input, skipValidation, presetsData, validation,
                 engine, result>>

\* handleSubmit resumes after line 21 with a valid verdict: line 41,
\* generateLayout(data, true) up to the await of line 419
SubmitGenerates(c) ==
  /\ NoneRunning
  /\ call[c].kind = "validateBeforeGenerate" /\ call[c].at = "settled"
  /\ call[c].outcome.status = "resolved"
  /\ Proceeds(call[c].outcome.value)
  /\ call' = [call EXCEPT ![c] =
                LoadCall([IdleCall EXCEPT !.kind = "generateLayout",
                                          !.input = call[c].input,
                                          !.skipValidation = TRUE],
                         "generateLayout")]
  /\ requests' = requests + Issued
  /\ UNCHANGED <<cachedPresetsData, VOID_RATIO, catalogue, writes, procVars>>

\* handleSubmit resumes after line 41: setLayout(out) when generateLayout
\* resolved, the catch when it rejected; then the finally of line 47
SubmitSettles(c) ==
  /\ NoneRunning
  /\ call[c].kind = "generateLayout" /\ call[c].at = "settled"
  /\ layout' = IF call[c].outcome.status = "resolved"
               THEN call[c].outcome.value ELSE layout
  /\ call' = [call EXCEPT ![c].at = "returned"]
  /\ isGenerating' = FALSE
  /\ UNCHANGED <<cachedPresetsData, VOID_RATIO, catalogue, requests, writes,
                 pc, input, skipValidation, presetsData, validation, engine,
                 result>>

\* a response arrives while no submission can run
Responds(c) == Quiet /\ FetchOk(c)

Fails(c) == Quiet /\ FetchFail(c)

NextPage ==
  \/ \E c \in CallIds : Submit(c)
  \/ \E c \in CallIds : Responds(c)
  \/ \E c \in CallIds : Fails(c)
  \/ \E c \in CallIds : ValidateSettles(c)
  \/ \E c \in CallIds : SubmitStops(c)
  \/ \E c \in CallIds : SubmitGenerates(c)
  \/ \E c \in CallIds : AfterLoad(c)
  \/ \E c \in CallIds : AfterFixed(c)
  \/ \E c \in CallIds : PlaceTurn(c)
  \/ \E c \in CallIds : Return(c)
  \/ \E c \in CallIds : SubmitSettles(c)

SpecPage == InitPage /\ [][NextPage]_vars

\* C28: in handleSubmit, a verdict with isValid = false ends the submission
\* without a generateLayout call and leaves the displayed layout unchanged;
\* generateLayout is invoked only after a valid verdict, and the layout is
\* replaced only by the value a generateLayout call of a submission resolved
\* with; whenever a submission settles (verdict not valid, success, error
\* thrown) isGenerating is false.
C28_SubmitGating ==
  [][/\ \A c \in CallIds :
          /\ ( /\ call[c].kind = "validateBeforeGenerate"
               /\ call[c].at = "settled"
               /\ call[c].outcome.status = "resolved"
               /\ ~ call[c].outcome.value.isValid
               /\ call'[c] # call[c] )
             => ( /\ call'[c].kind = "validateBeforeGenerate"
                  /\ call'[c].at = "returned"
                  /\ layout' = layout )
          /\ ( call[c].kind # "generateLayout"
               /\ call'[c].kind = "generateLayout" )
             => ( /\ call[c].kind = "validateBeforeGenerate"
                  /\ call[c].outcome.status = "resolved"
                  /\ call[c].outcome.value.isValid
                  /\ call'[c].input = call[c].input )
          /\ ( call[c].at # "returned" /\ call'[c].at = "returned" )
             => ~ isGenerating'
     /\ layout' # layout =>
          \E c \in CallIds :
            /\ call[c].kind = "generateLayout"
            /\ call[c].at = "settled" /\ call'[c].at = "returned"
            /\ call[c].outcome.status = "resolved"
            /\ layout' = call[c].outcome.value]_vars

\* a submission was stopped by its verdict while a layout of an earlier
\* submission is displayed
C28_Witness ==
  /\ pc = "page"
  /\ ~ IsNull(layout) /\ ~ isGenerating
  /\ \E c \in CallIds :
       /\ call[c].kind = "validateBeforeGenerate" /\ call[c].at = "returned"
       /\ call[c].outcome.status = "resolved"
       /\ ~ call[c].outcome.value.isValid

\* -------------------------------------------- C29: the latest submission

\* every submission that was made has settled
AllSettled == \A c \in CallIds : call[c].kind = "idle" \/ call[c].at = "returned"

\* C29: when every submission has settled, and the one made last has
\* generated a layout, the displayed layout is that layout, in whatever order
\* the pending fetches and calls of the submissions completed.
C29_LatestWins ==
  (pc = "page" /\ ~ IsNull(input) /\ AllSettled) =>
    LET last == call[input.submission]
    IN  (last.kind = "generateLayout" /\ last.outcome.status = "resolved")
          => layout = last.outcome.value

\* ------------------------------------------ the canvas: dragging a room
\* Lengths of this section are in half units (2.5 cm) unless they are the
\* w, h of a room, which stay in units: half of a side of w units is w half
\* units.

\* const MIN_W = 1, MIN_H = 1, SNAP = 0.1, in half units
MIN_W == 40

MIN_H == 40

SNAP == 4

WALL_EPS == SNAP \div 2

\* exteriorWallThickness={0.2}, the prop the page passes to the canvas
EXTERIOR_WALL_THICKNESS == 8

\* Math.round(v / SNAP) * SNAP; Math.round takes a half upwards
Snap(v) == ((v + WALL_EPS) \div SNAP) * SNAP

\* if (Math.abs(v - wall) < WALL_EPS) v = wall
StickToWall(v, wall) == IF Abs(v - wall) < WALL_EPS THEN wall ELSE v

\* the MOVE branch along one axis: the interior reaches from -half to half,
\* side2 is half the side of the room, target where the pointer asks the
\* centre to be (lines 915-934)
MoveAxis(half, side2, target) ==
  LET n == Snap(Max(- half + side2, Min(half - side2, target)))
  IN  StickToWall(StickToWall(n, half - side2), - half + side2)

\* the MOVE branch of onMove for the dragged room r
MoveRoom(r, floor, target) ==
  [r EXCEPT !.x = MoveAxis(floor.width - EXTERIOR_WALL_THICKNESS, r.w,
                           target.x),
            !.y = MoveAxis(floor.height - EXTERIOR_WALL_THICKNESS, r.h,
                           target.y)]

Handles == {"N", "S", "E", "W", "NE", "NW", "SE", "SW"}

\* mode.includes("E") ? 1 : mode.includes("W") ? -1 : 0, and for N, S
SgnX(mode) ==
  IF mode \in {"E", "NE", "SE"} THEN 1
  ELSE IF mode \in {"W", "NW", "SW"} THEN -1 ELSE 0

SgnY(mode) ==
  IF mode \in {"N", "NE", "NW"} THEN 1
  ELSE IF mode \in {"S", "SE", "SW"} THEN -1 ELSE 0

\* the anchor of a resize: the point of the room opposite to the handle
\* (lines 812-855)
Anchor(r, handle) ==
  [x |-> r.x - SgnX(handle) * r.w, y |-> r.y - SgnY(handle) * r.h]

\* the side after a resize along one axis, full length in half units: from
\* the pointer when the handle moves this axis, else the side at the start
\* (lines 944-954)
NewSide(sgn, startSide, d, min) ==
  Max(min, Snap(IF sgn # 0 THEN Max(min, Abs(d)) ELSE 2 * startSide))

\* the centre after a resize along one axis (lines 956-967)
NewCentre(half, anchor, sgn, side) ==
  Min(Max(anchor + sgn * (side \div 2), - half + side \div 2),
      half - side \div 2)

\* the resize branch of onMove for the dragged room r
ResizeRoom(r, floor, mode, anchor, start, hit) ==
  LET newW == NewSide(SgnX(mode), start.w, hit.x - anchor.x, MIN_W)
      newH == NewSide(SgnY(mode), start.h, hit.y - anchor.y, MIN_H)
  IN  [r EXCEPT
         !.x = NewCentre(floor.width - EXTERIOR_WALL_THICKNESS, anchor.x,
                         SgnX(mode), newW),
         !.y = NewCentre(floor.height - EXTERIOR_WALL_THICKNESS, anchor.y,
                         SgnY(mode), newH),
         !.w = newW \div 2, !.h = newH \div 2]

\* what the form can submit for the canvas: no walls field, so the engine's
\* wall thickness is the canvas's
CanvasInputs ==
  {FloorInput(100, 80, "S", 40, 20, Null, <<"living", "bed">>),
   FloorInput(50, 60, "N", 0, 8, Null, <<"wc">>)}

CanvasLayouts ==
  {SkippedRun(in, Null, VOID_RATIO_DEFAULT) : in \in CanvasInputs}

\* where the pointer is on the plane of the floor, inside and outside it
PointerXs == {-130, -30, 0, 13, 61, 130}

PointerYs == {-110, 0, 13, 110}

\* position minus hit at pointer down: the room is grabbed at its centre or
\* off it
Offsets == {[x |-> 0, y |-> 0], [x |-> 5, y |-> -7]}

InitCanvas ==
  /\ cachedPresetsData = Null
  /\ VOID_RATIO = VOID_RATIO_DEFAULT
  /\ catalogue = Null
  /\ requests = 0
  /\ writes = 0
  /\ layout \in CanvasLayouts
  /\ isGenerating = FALSE
  /\ call = Null
  /\ pc = "canvas"
  /\ input = Null
  /\ skipValidation = TRUE
  /\ presetsData = Null
  /\ validation = Null
  /\ engine = Null
  /\ result = Null

\* draggingRef.current is set
Dragging == pc = "canvas" /\ engine # Null

\* onDown on a room: the handle under the pointer, or MOVE (lines 770-855)
PointerDown ==
  /\ pc = "canvas" /\ engine = Null
  /\ \E i \in 1..Len(layout.rooms), mode \in Handles \cup {"MOVE"},
        offset \in Offsets :
       LET r == RectOf(layout.rooms[i]) @@ [id |-> layout.rooms[i].id]
       IN  engine' = [r |-> r, mode |-> mode,
                      offset |-> IF mode = "MOVE" THEN offset
                                 ELSE [x |-> 0, y |-> 0],
                      anchor |-> Anchor(r, mode), start |-> r]
  /\ UNCHANGED <<moduleVars, pc, input, skipValidation, presetsData,
                 validation, result>>

\* onMove while dragging (lines 905-1037)
PointerMove ==
  /\ Dragging
  /\ \E x \in PointerXs, y \in PointerYs :
       /\ input' = [x |-> x, y |-> y]
       /\ engine' =
            [engine EXCEPT !.r =
               IF engine.mode = "MOVE"
               THEN MoveRoom(engine.r, layout.floor,
                             [x |-> x + engine.offset.x,
                              y |-> y + engine.offset.y])
               ELSE ResizeRoom(engine.r, layout.floor, engine.mode,
                               engine.anchor, engine.start,
                               [x |-> x, y |-> y])]
  /\ UNCHANGED <<moduleVars, pc, skipValidation, presetsData, validation,
                 result>>

\* onUp while dragging: onRoomEdit(r.id, {x, y, w, h}) (lines 1106-1119),
\* which is the page's handleRoomEdit. One drag is followed from the grab to
\* the release; the next drag starts from a layout the page holds, as this
\* one did.
PointerUp ==
  /\ Dragging
  /\ result' = RectOf(engine.r)
  /\ layout' = handleRoomEdit(layout, engine.r.id, RectOf(engine.r))
  /\ engine' = Null
  /\ pc' = "released"
  /\ UNCHANGED <<cachedPresetsData, VOID_RATIO, catalogue, requests, writes,
                 isGenerating, call, input, skipValidation, presetsData,
                 validation>>

NextCanvas ==
  \/ PointerDown
  \/ PointerMove
  \/ PointerUp

SpecCanvas == InitCanvas /\ [][NextCanvas]_vars

\* the rectangle lies in the usable interior of the floor, and its sides are
\* at least 1 m
InsideInterior(r, floor) ==
  /\ - (floor.width - EXTERIOR_WALL_THICKNESS) <= r.x - r.w
  /\ r.x + r.w <= floor.width - EXTERIOR_WALL_THICKNESS
  /\ - (floor.height - EXTERIOR_WALL_THICKNESS) <= r.y - r.h
  /\ r.y + r.h <= floor.height - EXTERIOR_WALL_THICKNESS

SidesAtLeastMin(r) == 2 * r.w >= MIN_W /\ 2 * r.h >= MIN_H

\* C30: while a room that was inside the usable interior with sides >= 1 m
\* when it was grabbed is dragged, in a MOVE or in a resize, after every
\* pointer move its rectangle lies in the usable interior and its sides are
\* >= 1 m, and so does the patch reported to onRoomEdit on release.
C30_EditContained ==
  [][(/\ Dragging
      /\ InsideInterior(engine.start, layout.floor)
      /\ SidesAtLeastMin(engine.start))
     => IF engine' # Null
        THEN /\ InsideInterior(engine'.r, layout.floor)
             /\ SidesAtLeastMin(engine'.r)
        ELSE /\ InsideInterior(result', layout.floor)
             /\ SidesAtLeastMin(result')]_vars

====
